---- MODULE Spec2Model ----
(***************************************************************************)
(* Ticket lifecycle of the helpdesk (mvp-tickets): the status workflow,    *)
(* manual and rule-driven assignment, the audit trail with its derived     *)
(* activity feed, as implemented by tickets/api.py (REST entry points),    *)
(* tickets/views.py (UI entry points), tickets/services.py and the         *)
(* save hooks of tickets/signals.py.                                       *)
(*                                                                         *)
(* The store is the set of tables; every handler is one action that        *)
(* performs all of its writes in the order of the code.  No handler runs   *)
(* inside transaction.atomic and ATOMIC_REQUESTS is not set, so each write *)
(* is committed on its own (autocommit) and transaction.on_commit hooks    *)
(* run at once.                                                            *)
(***************************************************************************)
EXTENDS Integers, Sequences, FiniteSets, TLC

(***************************************************************************)
(* Bounds of the model.                                                    *)
(***************************************************************************)
MaxTickets == 1
MaxAudit == 2
MaxTime == 2
MaxLifeAudit == 5
MaxRules == 2
MaxSlaAudit == 5
MaxSlaTime == 25
MaxTrailAudit == 4
MaxCodeTickets == 3
MaxCodeAudit == 4
MaxFaultTickets == 2
MaxFaultAudit == 4
MaxRaceAudit == 4
MaxSweepsAudit == 5

(***************************************************************************)
(* Identity / role provider (accounts/roles.py).                           *)
(***************************************************************************)
ROLE_ADMIN == "ADMINISTRADOR"
ROLE_TECH == "TECNICO"
ROLE_REQUESTER == "SOLICITANTE"

Users == {"admin", "tech1", "tech2", "req1"}

\* None of a nullable user foreign key / of a missing request parameter.
NoUser == "none"
\* A user id that matches no row of the user table.
GhostUser == "ghost"

UserGroups ==
  [u \in Users |->
     CASE u = "admin" -> {ROLE_ADMIN}
       [] u \in {"tech1", "tech2"} -> {ROLE_TECH}
       [] OTHER -> {ROLE_REQUESTER}]

is_admin(user) == ROLE_ADMIN \in UserGroups[user]

is_tech(user) == ROLE_TECH \in UserGroups[user]

email_of(user) == IF user \in Users THEN user ELSE ""

(***************************************************************************)
(* Ticket (tickets/models.py).                                             *)
(***************************************************************************)
OPEN == "OPEN"
IN_PROGRESS == "IN_PROGRESS"
RESOLVED == "RESOLVED"
CLOSED == "CLOSED"

STATUS_CHOICES ==
  [s \in {OPEN, IN_PROGRESS, RESOLVED, CLOSED} |->
     CASE s = OPEN -> "Abierto"
       [] s = IN_PROGRESS -> "En Progreso"
       [] s = RESOLVED -> "Resuelto"
       [] OTHER -> "Cerrado"]

\* null of the DateTimeFields resolved_at / closed_at
NoTime == -1

\* Priority rows of the catalogue, with their sla_hours
Priorities == {"Normal", "Urgente"}

sla_hours == [p \in Priorities |-> IF p = "Urgente" THEN 10 ELSE 24]

\* null of the optional area / category foreign keys
NoArea == "none"
NoCategory == "none"

VARIABLES
  tickets,        \* Ticket rows, indexed by primary key
  comments,       \* TicketComment rows, in creation order
  attachments,    \* TicketAttachment rows, in creation order
  assignments,    \* TicketAssignment rows, in creation order
  audit,          \* AuditLog rows, in creation order
  events,         \* EventLog rows (activity feed), in creation order
  notifications,  \* Notification rows, in creation order
  emails,         \* mails handed to send_mail, in order
  rules,          \* AutoAssignRule rows, in primary-key order
  now,            \* timezone.now()
  last,           \* the last request and its response
  inflight        \* per worker process, the request it is in the middle of

store ==
  <<tickets, comments, attachments, assignments, audit, events, notifications,
    emails>>

vars == <<tickets, comments, attachments, assignments, audit, events,
          notifications, emails, rules, now, last, inflight>>

\* The tables as one value, so that a handler's writes compose in code order.
DB ==
  [tickets |-> tickets, comments |-> comments, attachments |-> attachments,
   assignments |-> assignments,
   audit |-> audit, events |-> events, notifications |-> notifications,
   emails |-> emails]

\* The tables after a request are those its handler leaves behind.
Commit(db) ==
  \E d \in {db} :
    /\ tickets' = d.tickets
    /\ comments' = d.comments
    /\ attachments' = d.attachments
    /\ assignments' = d.assignments
    /\ audit' = d.audit
    /\ events' = d.events
    /\ notifications' = d.notifications
    /\ emails' = d.emails

NoTicket ==
  [id |-> 0, code |-> "", title |-> "", category |-> NoCategory,
   priority |-> "", area |-> NoArea,
   requester |-> NoUser, assigned_to |-> NoUser, status |-> "",
   created_at |-> NoTime, updated_at |-> NoTime,
   resolved_at |-> NoTime, closed_at |-> NoTime]

(***************************************************************************)
(* Mail and notifications.                                                 *)
(***************************************************************************)
send_mail(db, subject, tid, to) ==
  IF email_of(to) = "" THEN db
  ELSE [db EXCEPT !.emails = Append(@, [to |-> {email_of(to)}, subject |-> subject,
                                         ticket |-> tid])]

create_notification(db, user, message, tid) ==
  IF user = NoUser THEN db
  ELSE [db EXCEPT !.notifications =
          Append(@, [user |-> user, message |-> message, ticket |-> tid])]

(***************************************************************************)
(* Audit trail: AuditLog.objects.create and its post_save hook.            *)
(***************************************************************************)
NoMeta ==
  [from |-> NoUser, to |-> NoUser, reason |-> "", with_comment |-> FALSE,
   internal |-> FALSE, body_preview |-> "", title_changed |-> FALSE,
   title_from |-> "", title_to |-> "", with_attachment |-> FALSE,
   filename |-> "", remaining_h |-> <<>>, overdue_h |-> <<>>]

\* The message on_audit_log renders from the entry's action and meta.
audit_message(actor, action, meta) ==
  CASE action = "CREATE" -> <<"Ticket creado.">>
    [] action = "ASSIGN" ->
         (IF meta.from # NoUser /\ meta.from # meta.to
            THEN <<"Reasignado de", meta.from, "a", meta.to>>
            ELSE <<"Asignado a", meta.to>>)
         \o (IF meta.reason # "" THEN <<"Motivo:", meta.reason>> ELSE <<>>)
         \o (IF meta.title_changed /\ (meta.title_from # "" \/ meta.title_to # "")
               THEN <<"Titulo:", meta.title_from, meta.title_to>> ELSE <<>>)
    [] action = "STATUS" ->
         <<"Estado:",
           IF meta.from \in DOMAIN STATUS_CHOICES
             THEN STATUS_CHOICES[meta.from] ELSE "Sin estado",
           IF meta.to \in DOMAIN STATUS_CHOICES
             THEN STATUS_CHOICES[meta.to] ELSE "Sin estado">>
         \o (IF meta.with_comment /\ meta.body_preview # ""
               THEN <<"Comentario", IF meta.internal THEN "interno" ELSE "publico",
                      meta.body_preview>>
               ELSE <<>>)
    [] action = "COMMENT" ->
         (IF meta.body_preview # ""
            THEN <<IF actor = NoUser THEN "usuario" ELSE actor, "comento",
                   IF meta.internal THEN "interno" ELSE "publico",
                   meta.body_preview>>
            ELSE <<IF actor = NoUser THEN "usuario" ELSE actor,
                   "agrego un comentario",
                   IF meta.internal THEN "interno" ELSE "publico">>)
         \o (IF meta.with_attachment
               THEN <<"Adjunto",
                      IF meta.filename # "" THEN meta.filename
                      ELSE "archivo adjunto">>
               ELSE <<>>)
    [] action = "ATTACH" ->
         (IF meta.filename # "" THEN <<"Adjunto agregado:", meta.filename>>
          ELSE <<"Adjunto agregado al ticket.">>)
    [] action = "SLA_WARN" ->
         (IF meta.remaining_h # <<>>
            THEN <<"Alerta SLA:", meta.remaining_h[1], "h restantes.">>
            ELSE <<"Advertencia SLA.">>)
    [] action = "SLA_BREACH" ->
         (IF meta.overdue_h # <<>>
            THEN <<"SLA vencido hace", meta.overdue_h[1], "h.">>
            ELSE <<"Incumplimiento SLA.">>)
    [] OTHER -> <<>>

\* on_audit_log deriving nothing for the entries that have no actor
on_audit_log_actor_only(db, entry) ==
  IF entry.actor = NoUser THEN db
  ELSE [db EXCEPT !.events =
          Append(@, [actor |-> entry.actor, model |-> "ticket",
                     obj_id |-> entry.ticket, action |-> entry.action,
                     message |-> audit_message(entry.actor, entry.action,
                                               entry.meta)])]

on_audit_log(db, entry) ==
  [db EXCEPT !.events =
     Append(@, [actor |-> entry.actor, model |-> "ticket", obj_id |-> entry.ticket,
                action |-> entry.action,
                message |-> audit_message(entry.actor, entry.action, entry.meta)])]

\* AuditLog_create as an upsert: the entry takes the place of the ticket's
\* last entry of the same action
AuditLog_create_upsert(db, tid, actor, action, meta) ==
  LET entry == [ticket |-> tid, actor |-> actor, action |-> action, meta |-> meta]
      Other(e) == ~(e.ticket = tid /\ e.action = action)
  IN on_audit_log([db EXCEPT !.audit = Append(SelectSeq(@, Other), entry)], entry)

AuditLog_create(db, tid, actor, action, meta) ==
  LET entry == [ticket |-> tid, actor |-> actor, action |-> action, meta |-> meta]
  IN on_audit_log([db EXCEPT !.audit = Append(@, entry)], entry)

(***************************************************************************)
(* Ticket.save with the pre_save / post_save hooks of tickets/signals.py.  *)
(***************************************************************************)
\* pre_save: the status the row has in the database
stash_old_status(db, inst) ==
  IF inst.id \in DOMAIN db.tickets THEN db.tickets[inst.id].status ELSE ""

\* post_save writing its STATUS entry whether or not the handler asked it to
\* skip it
on_ticket_created_or_updated_unsuppressed(db, inst, old, skip_status_signal_audit, status_changed_by) ==
  IF old = inst.status THEN db
  ELSE
    LET db1 == IF inst.status = RESOLVED
                 THEN send_mail(db, "Ticket resuelto", inst.id, inst.requester)
               ELSE IF inst.status = CLOSED
                 THEN send_mail(db, "Ticket cerrado", inst.id, inst.requester)
               ELSE db
    IN AuditLog_create(db1, inst.id, status_changed_by, "STATUS",
                       [NoMeta EXCEPT !.from = old, !.to = inst.status])

\* post_save of an existing row (created = False)
on_ticket_created_or_updated(db, inst, old, skip_status_signal_audit, status_changed_by) ==
  IF old = inst.status THEN db
  ELSE
    LET db1 == IF inst.status = RESOLVED
                 THEN send_mail(db, "Ticket resuelto", inst.id, inst.requester)
               ELSE IF inst.status = CLOSED
                 THEN send_mail(db, "Ticket cerrado", inst.id, inst.requester)
               ELSE db
    IN IF skip_status_signal_audit THEN db1
       ELSE AuditLog_create(db1, inst.id, status_changed_by, "STATUS",
                            [NoMeta EXCEPT !.from = old, !.to = inst.status])

\* save() of a loaded instance; update_fields = {} stands for a full save
Ticket_save(db, inst, update_fields, skip_status_signal_audit, status_changed_by) ==
  LET old == stash_old_status(db, inst)
      row == db.tickets[inst.id]
      written ==
        IF update_fields = {}
          THEN [inst EXCEPT !.updated_at = now]
          ELSE [f \in DOMAIN row |->
                  IF f = "updated_at" /\ f \in update_fields THEN now
                  ELSE IF f \in update_fields THEN inst[f] ELSE row[f]]
      db1 == [db EXCEPT !.tickets[inst.id] = written]
  IN on_ticket_created_or_updated(db1, inst, old, skip_status_signal_audit,
                                  status_changed_by)

TicketComment_create(db, tid, author, body, is_internal) ==
  LET db1 == [db EXCEPT !.comments =
                Append(@, [ticket |-> tid, author |-> author, body |-> body,
                           is_internal |-> is_internal])]
  IN \* on_public_comment
     IF is_internal THEN db1
     ELSE send_mail(db1, "Nuevo comentario", tid, db.tickets[tid].requester)

TicketAttachment_create(db, tid, uploaded_by, file) ==
  [db EXCEPT !.attachments =
     Append(@, [ticket |-> tid, uploaded_by |-> uploaded_by, file |-> file.name])]

TicketAssignment_create(db, tid, from_user, to_user, reason) ==
  LET db1 == [db EXCEPT !.assignments =
                Append(@, [ticket |-> tid, from_user |-> from_user,
                           to_user |-> to_user, reason |-> reason])]
  IN \* on_assignment
     send_mail(db1, "Nuevo ticket asignado", tid, to_user)


(***************************************************************************)
(* Auto-assignment (tickets/services.py).                                  *)
(***************************************************************************)
\* QuerySet.first(): the matching row of lowest primary key, 0 for None
first(S) == IF S = {} THEN 0 ELSE CHOOSE i \in S : \A j \in S : i <= j

\* A variant of the lookup that tries the area-only rules before the
\* category-only ones; AutoAssignPrecedence tells it from the code's.
auto_assign_rule_area_first(t) ==
  LET qs == {i \in DOMAIN rules : rules[i].is_active}
      exact == first({i \in qs : rules[i].category = t.category
                                   /\ rules[i].area = t.area})
      by_category == first({i \in qs : rules[i].category = t.category
                                         /\ rules[i].area = NoArea})
      by_area == first({i \in qs : rules[i].category = NoCategory
                                     /\ rules[i].area = t.area})
  IN IF exact # 0 THEN exact
     ELSE IF by_area # 0 THEN by_area
     ELSE by_category

\* The rule apply_auto_assign picks for a ticket (index into rules, 0 if none)
auto_assign_rule(t) ==
  LET qs == {i \in DOMAIN rules : rules[i].is_active}
      exact == first({i \in qs : rules[i].category = t.category
                                   /\ rules[i].area = t.area})
      by_category == first({i \in qs : rules[i].category = t.category
                                         /\ rules[i].area = NoArea})
      by_area == first({i \in qs : rules[i].category = NoCategory
                                     /\ rules[i].area = t.area})
  IN IF exact # 0 THEN exact
     ELSE IF by_category # 0 THEN by_category
     ELSE by_area

\* A variant of the return value without the test that the rule's technician
\* is already the assignee; AutoAssignIdempotent tells it from the code's.
auto_assign_applies_again(t) ==
  auto_assign_rule(t) # 0

\* The value apply_auto_assign returns
auto_assign_applies(t) ==
  /\ auto_assign_rule(t) # 0
  /\ t.assigned_to # rules[auto_assign_rule(t)].tech

apply_auto_assign(db, tid, actor) ==
  LET t == db.tickets[tid] IN
  IF ~auto_assign_applies(t) THEN db
  ELSE
    LET rule == rules[auto_assign_rule(t)]
        prev == t.assigned_to
        inst == [t EXCEPT !.assigned_to = rule.tech]
        db1 == Ticket_save(db, inst, {"assigned_to", "updated_at"}, FALSE, NoUser)
        db2 == TicketAssignment_create(db1, tid, actor, rule.tech, "auto-assign")
    IN AuditLog_create(db2, tid, actor, "ASSIGN",
                       [NoMeta EXCEPT !.from = prev, !.to = rule.tech,
                                      !.reason = "auto-assign"])

(***************************************************************************)
(* Ticket creation.                                                        *)
(***************************************************************************)
\* Ticket.save of a new instance: insert with a temporary code, then the
\* code is rewritten to str(pk); post_save (created) mails the requester.
\* The placeholder is "_TMP-" and uuid4().hex; the token stands for the hex.
tmp_code(token) == "_TMP-" \o token

\* unique=True of Ticket.code
code_taken(db, code) == \E i \in DOMAIN db.tickets : db.tickets[i].code = code

\* The first half of Ticket.save, up to super().save(): the row is inserted
\* with the placeholder and post_save (created) mails the requester.
Ticket_save_insert(db, requester, title, category, priority, area, assigned_to, token) ==
  LET pk == Len(db.tickets) + 1
      row == [id |-> pk, code |-> tmp_code(token), title |-> title,
              category |-> category, priority |-> priority, area |-> area,
              requester |-> requester,
              assigned_to |-> assigned_to, status |-> OPEN,
              created_at |-> now, updated_at |-> now,
              resolved_at |-> NoTime, closed_at |-> NoTime]
  IN send_mail([db EXCEPT !.tickets = Append(@, row)], "Ticket creado", pk, requester)

\* The rewrite numbering the tickets in the order their creations complete
Ticket_save_rewrite_counting(db, pk) ==
  LET done == {i \in DOMAIN db.tickets : db.tickets[i].code = ToString(i)}
  IN [db EXCEPT !.tickets[pk].code = ToString(Cardinality(done) + 1)]

\* The second half of Ticket.save: update(code=str(pk))
Ticket_save_rewrite(db, pk) == [db EXCEPT !.tickets[pk].code = ToString(pk)]

\* Ticket.save of a new instance with no other creation under way (the
\* token then plays no part)
Ticket_insert(db, requester, title, category, priority, area, assigned_to) ==
  Ticket_save_rewrite(
    Ticket_save_insert(db, requester, title, category, priority, area,
                       assigned_to, "0"),
    Len(db.tickets) + 1)

\* TicketViewSet.perform_create
perform_create(db, u, title, category, priority, area) ==
  LET pk == Len(db.tickets) + 1
      db1 == Ticket_insert(db, u, title, category, priority, area, NoUser)
      db2 == AuditLog_create(db1, pk, u, "CREATE", NoMeta)
  IN apply_auto_assign(db2, pk, u)

\* The assignee TicketCreateForm hands to ticket_create: the field exists for
\* administrators only; "invalid" when the choice is not an active technician.
form_assignee(u, assignee) ==
  IF ~is_admin(u) THEN NoUser
  ELSE IF assignee = NoUser THEN NoUser
  ELSE IF assignee \in Users /\ is_tech(assignee) THEN assignee
  ELSE "invalid"

\* ticket_create (POST, valid form)
ticket_create(db, u, title, category, priority, area, assignee) ==
  LET pk == Len(db.tickets) + 1
      db1 == Ticket_insert(db, u, title, category, priority, area, assignee)
      db2 == IF assignee = NoUser THEN db1
             ELSE AuditLog_create(
                    TicketAssignment_create(db1, pk, u, assignee, ""),
                    pk, u, "ASSIGN", [NoMeta EXCEPT !.from = NoUser, !.to = assignee])
      db3 == IF db2.tickets[pk].assigned_to = NoUser
               THEN apply_auto_assign(db2, pk, NoUser) ELSE db2
      db4 == create_notification(db3, u, "creado", pk)
  IN create_notification(db4, db3.tickets[pk].assigned_to, "te ha sido asignado", pk)

(***************************************************************************)
(* Status transitions.                                                     *)
(***************************************************************************)
\* A variant of the table that lets a CLOSED ticket be reopened; ClosedIsTerminal
\* tells it from the table of the code.
transition_allowed_reopening(status) ==
  CASE status = OPEN -> {IN_PROGRESS}
    [] status = IN_PROGRESS -> {RESOLVED, OPEN}
    [] status = RESOLVED -> {CLOSED, IN_PROGRESS}
    [] status = CLOSED -> {OPEN}
    [] OTHER -> {}

\* The `allowed` table of TicketViewSet.transition
transition_allowed(status) ==
  CASE status = OPEN -> {IN_PROGRESS}
    [] status = IN_PROGRESS -> {RESOLVED, OPEN}
    [] status = RESOLVED -> {CLOSED, IN_PROGRESS}
    [] status = CLOSED -> {}
    [] OTHER -> {}

\* views.allowed_transitions_for
allowed_transitions_for(t, user) ==
  LET allowed == CASE t.status = OPEN -> {IN_PROGRESS}
                   [] t.status = IN_PROGRESS -> {RESOLVED, OPEN}
                   [] t.status = RESOLVED -> {CLOSED, IN_PROGRESS}
                   [] t.status = CLOSED -> {}
                   [] OTHER -> {}
  IN IF is_admin(user) \/ (is_tech(user) /\ t.assigned_to = user)
       THEN allowed ELSE {}

\* TicketViewSet.get_queryset: the tickets get_object() finds for a user
get_queryset(db, u) ==
  {tid \in DOMAIN db.tickets :
     IF is_admin(u) THEN TRUE
     ELSE IF is_tech(u) THEN db.tickets[tid].assigned_to = u
     ELSE db.tickets[tid].requester = u}

\* A variant of the stamping that clears resolved_at when a ticket leaves
\* RESOLVED for IN_PROGRESS; StampsNeverGoBack tells it from the code's.
transition_stamp_clearing(t, next_status) ==
  [t EXCEPT !.status = next_status,
            !.resolved_at = IF next_status = RESOLVED THEN now
                            ELSE IF next_status = IN_PROGRESS THEN NoTime ELSE @,
            !.closed_at = IF next_status = CLOSED THEN now ELSE @]

\* The stamps both transition handlers set before save()
transition_stamp(t, next_status) ==
  [t EXCEPT !.status = next_status,
            !.resolved_at = IF next_status = RESOLVED THEN now ELSE @,
            !.closed_at = IF next_status = CLOSED THEN now ELSE @]

status_meta(previous_status, next_status, comment, is_internal) ==
  [NoMeta EXCEPT !.from = previous_status, !.to = next_status,
                 !.with_comment = (comment # ""), !.internal = is_internal,
                 !.body_preview = comment]

\* The response of TicketViewSet.transition, by its early returns
transition_response(db, u, tid, next_status) ==
  IF tid \notin get_queryset(db, u) THEN "NotFound"
  ELSE IF next_status \notin DOMAIN STATUS_CHOICES THEN "InvalidTarget"
  ELSE IF next_status \notin transition_allowed(db.tickets[tid].status)
    THEN "IllegalTransition"
  ELSE IF ~(is_admin(u) \/ (is_tech(u) /\ db.tickets[tid].assigned_to = u))
    THEN "Unauthorized"
  ELSE "ok"

\* The writes of TicketViewSet.transition, the first `upto` of them:
\* ticket.save(), the optional comment, the STATUS entry.
transition_writes(db, u, tid, next_status, comment, is_internal, upto) ==
  LET t == db.tickets[tid]
      previous_status == t.status
      db1 == IF upto >= 1
               THEN Ticket_save(db, transition_stamp(t, next_status), {}, TRUE, u)
               ELSE db
      db2 == IF upto >= 2 /\ comment # ""
               THEN TicketComment_create(db1, tid, u, comment, is_internal)
               ELSE db1
  IN IF upto >= 3
       THEN AuditLog_create(db2, tid, u, "STATUS",
              status_meta(previous_status, next_status, comment, is_internal))
       ELSE db2

\* TicketViewSet.transition: what it answers and the tables it leaves
transition(db, u, tid, next_status, comment, is_internal) ==
  LET resp == transition_response(db, u, tid, next_status) IN
  [resp |-> resp,
   db |-> IF resp = "ok"
            THEN transition_writes(db, u, tid, next_status, comment, is_internal, 3)
            ELSE db]

\* The response of views.ticket_transition, by its early returns
ticket_transition_response(db, u, tid, next_status) ==
  IF tid \notin DOMAIN db.tickets THEN "NotFound"
  ELSE IF allowed_transitions_for(db.tickets[tid], u) = {} THEN "Unauthorized"
  ELSE IF next_status \notin allowed_transitions_for(db.tickets[tid], u)
    THEN "IllegalTransition"
  ELSE "ok"

\* The writes of views.ticket_transition, the first `upto` of them:
\* t.save(), the optional comment, the STATUS entry, the notifications.
ticket_transition_writes(db, u, tid, next_status, comment, is_internal, upto) ==
  LET t == db.tickets[tid]
      old_status == stash_old_status(db, t)
      previous_status == IF old_status # "" THEN old_status ELSE t.status
      db1 == IF upto >= 1
               THEN Ticket_save(db, transition_stamp(t, next_status), {}, TRUE, u)
               ELSE db
      db2 == IF upto >= 2 /\ comment # ""
               THEN TicketComment_create(db1, tid, u, comment, is_internal)
               ELSE db1
      db3 == IF upto >= 3
               THEN AuditLog_create(db2, tid, u, "STATUS",
                      status_meta(previous_status, next_status, comment, is_internal))
               ELSE db2
  IN IF upto >= 4
       THEN create_notification(
              create_notification(db3, t.requester, "estado actualizado", tid),
              t.assigned_to, "estado actualizado", tid)
       ELSE db3

\* A variant of views.ticket_transition that saves the ticket before it looks
\* at next_status; RejectedChangesNothing tells it from the code's.
ticket_transition_saving_first(db, u, tid, next_status, comment, is_internal) ==
  LET resp == ticket_transition_response(db, u, tid, next_status) IN
  [resp |-> resp,
   db |-> IF resp = "ok"
            THEN ticket_transition_writes(db, u, tid, next_status, comment,
                                          is_internal, 4)
            ELSE IF resp = "IllegalTransition"
              THEN ticket_transition_writes(db, u, tid, next_status, comment,
                                            is_internal, 1)
              ELSE db]

\* views.ticket_transition: what it answers and the tables it leaves
ticket_transition(db, u, tid, next_status, comment, is_internal) ==
  LET resp == ticket_transition_response(db, u, tid, next_status) IN
  [resp |-> resp,
   db |-> IF resp = "ok"
            THEN ticket_transition_writes(db, u, tid, next_status, comment,
                                          is_internal, 4)
            ELSE db]

(***************************************************************************)
(* Manual assignment.                                                      *)
(***************************************************************************)
\* The response of TicketViewSet.assign, by its early returns
assign_response(db, u, tid, to_user_id) ==
  IF tid \notin get_queryset(db, u) THEN "NotFound"
  ELSE IF to_user_id = NoUser THEN "InvalidTarget"
  ELSE IF to_user_id \notin Users THEN "NotFound"
  ELSE IF ~(is_admin(u) \/ (is_tech(u) /\ to_user_id = u)) THEN "Unauthorized"
  ELSE "ok"

\* A variant of the writes that reads the previous assignee after the save;
\* ManualAssignRecorded tells it from the code's.
assign_writes_prev_after_save(db, u, tid, to_user, reason) ==
  LET t == db.tickets[tid]
      db1 == Ticket_save(db, [t EXCEPT !.assigned_to = to_user],
                         {"assigned_to", "updated_at"}, FALSE, NoUser)
      prev == db1.tickets[tid].assigned_to
      db2 == TicketAssignment_create(db1, tid, u, to_user, reason)
  IN AuditLog_create(db2, tid, u, "ASSIGN",
                     [NoMeta EXCEPT !.from = prev, !.to = to_user, !.reason = reason])

\* The writes of TicketViewSet.assign
assign_writes(db, u, tid, to_user, reason) ==
  LET t == db.tickets[tid]
      prev == t.assigned_to
      db1 == Ticket_save(db, [t EXCEPT !.assigned_to = to_user],
                         {"assigned_to", "updated_at"}, FALSE, NoUser)
      db2 == TicketAssignment_create(db1, tid, u, to_user, reason)
  IN AuditLog_create(db2, tid, u, "ASSIGN",
                     [NoMeta EXCEPT !.from = prev, !.to = to_user, !.reason = reason])

\* TicketViewSet.assign: what it answers and the tables it leaves
assign(db, u, tid, to_user_id, reason) ==
  LET resp == assign_response(db, u, tid, to_user_id) IN
  [resp |-> resp,
   db |-> IF resp = "ok" THEN assign_writes(db, u, tid, to_user_id, reason) ELSE db]

\* The to_user_id views.ticket_assign works with: a technician self-assigns
ticket_assign_target(u, to_user_id) ==
  IF is_tech(u) /\ ~is_admin(u) THEN u ELSE to_user_id

\* The response of views.ticket_assign, by its early returns
ticket_assign_response(db, u, tid, to_user_id) ==
  IF tid \notin DOMAIN db.tickets THEN "NotFound"
  ELSE IF ~(is_admin(u) \/ is_tech(u)) THEN "Unauthorized"
  ELSE IF ticket_assign_target(u, to_user_id) = NoUser THEN "InvalidTarget"
  ELSE IF ticket_assign_target(u, to_user_id) \notin Users THEN "InvalidTarget"
  ELSE IF is_admin(u) /\ ~is_tech(ticket_assign_target(u, to_user_id))
    THEN "InvalidTarget"
  ELSE "ok"

\* The writes of views.ticket_assign
ticket_assign_writes(db, u, tid, to_user_id, reason, new_title) ==
  LET t == db.tickets[tid]
      to_user == ticket_assign_target(u, to_user_id)
      prev == t.assigned_to
      previous_title == t.title
      can_rename == is_admin(u) \/ (is_tech(u) /\ u = to_user)
      title_changed == can_rename /\ new_title # "" /\ new_title # t.title
      inst == [t EXCEPT !.assigned_to = to_user,
                        !.title = IF title_changed THEN new_title ELSE @]
      db1 == Ticket_save(db, inst,
                         {"assigned_to", "updated_at"}
                           \cup (IF title_changed THEN {"title"} ELSE {}),
                         FALSE, NoUser)
      db2 == TicketAssignment_create(db1, tid, u, to_user, reason)
      db3 == AuditLog_create(db2, tid, u, "ASSIGN",
               [NoMeta EXCEPT !.from = prev, !.to = to_user, !.reason = reason,
                              !.title_changed = title_changed,
                              !.title_from = previous_title, !.title_to = inst.title])
      db4 == create_notification(db3, to_user, "te ha sido asignado", tid)
  IN create_notification(db4, t.requester, "asignado", tid)

\* views.ticket_assign: what it answers and the tables it leaves
ticket_assign(db, u, tid, to_user_id, reason, new_title) ==
  LET resp == ticket_assign_response(db, u, tid, to_user_id) IN
  [resp |-> resp,
   db |-> IF resp = "ok"
            THEN ticket_assign_writes(db, u, tid, to_user_id, reason, new_title)
            ELSE db]


(***************************************************************************)
(* Comments and attachments.                                               *)
(***************************************************************************)
\* An upload is its file name and the name's suffix; NoFile is a request
\* without a file.
ALLOWED_EXT == {".png", ".jpg", ".jpeg", ".pdf", ".txt", ".doc", ".docx"}
NoFile == [name |-> "", ext |-> ""]

\* validators.validate_upload (uploads are plain names of allowed size and
\* content type; the suffix decides)
validate_upload(file) == file.ext \in ALLOWED_EXT

\* views.can_upload_attachments, and the same test in TicketViewSet.attachments
can_upload_attachments(t, u) ==
  \/ is_admin(u)
  \/ (is_tech(u) /\ t.assigned_to \in {NoUser, u})
  \/ t.requester = u

\* str.strip() of a comment body
strip(body) == IF body = " " THEN "" ELSE body

\* TicketViewSet.comments (POST)
comments_response(db, u, tid, body) ==
  IF tid \notin get_queryset(db, u) THEN "NotFound"
  ELSE IF strip(body) = "" THEN "InvalidBody"
  ELSE "ok"

comments_post(db, u, tid, body, is_internal) ==
  LET resp == comments_response(db, u, tid, body)
      internal == IF is_admin(u) \/ is_tech(u) THEN is_internal ELSE FALSE
      db1 == TicketComment_create(db, tid, u, body, internal)
      db2 == AuditLog_create(db1, tid, u, "COMMENT",
                             [NoMeta EXCEPT !.internal = internal,
                                            !.body_preview = body])
  IN [resp |-> resp, db |-> IF resp = "ok" THEN db2 ELSE db]

\* TicketViewSet.attachments (POST)
attachments_response(db, u, tid, file) ==
  IF tid \notin get_queryset(db, u) THEN "NotFound"
  ELSE IF ~can_upload_attachments(db.tickets[tid], u) THEN "Unauthorized"
  ELSE IF file = NoFile THEN "FileRequired"
  ELSE IF ~validate_upload(file) THEN "InvalidUpload"
  ELSE "ok"

attachments_post(db, u, tid, file) ==
  LET resp == attachments_response(db, u, tid, file)
      db1 == TicketAttachment_create(db, tid, u, file)
      db2 == AuditLog_create(db1, tid, u, "ATTACH",
                             [NoMeta EXCEPT !.filename = file.name])
  IN [resp |-> resp, db |-> IF resp = "ok" THEN db2 ELSE db]

\* views.add_comment
add_comment_response(db, u, tid, body, file) ==
  IF tid \notin DOMAIN db.tickets THEN "NotFound"
  ELSE IF ~(is_admin(u) \/ is_tech(u) \/ db.tickets[tid].requester = u)
    THEN "Unauthorized"
  ELSE IF strip(body) = "" THEN "InvalidBody"
  ELSE IF file # NoFile /\ ~can_upload_attachments(db.tickets[tid], u)
    THEN "Unauthorized"
  ELSE IF file # NoFile /\ ~validate_upload(file) THEN "InvalidUpload"
  ELSE "ok"

add_comment(db, u, tid, body, is_internal, file) ==
  LET resp == add_comment_response(db, u, tid, body, file)
      internal == IF is_admin(u) \/ is_tech(u) THEN is_internal ELSE FALSE
      db1 == TicketComment_create(db, tid, u, strip(body), internal)
      db2 == IF file # NoFile THEN TicketAttachment_create(db1, tid, u, file)
             ELSE db1
      db3 == AuditLog_create(db2, tid, u, "COMMENT",
                             [NoMeta EXCEPT !.internal = internal,
                                            !.with_attachment = (file # NoFile),
                                            !.filename = file.name,
                                            !.body_preview = strip(body)])
  IN [resp |-> resp, db |-> IF resp = "ok" THEN db3 ELSE db]

(***************************************************************************)
(* SLA sweep (tickets/services.py).  Time is counted in hours; warn_ratio  *)
(* is given in hundredths (warn_pct = 80 for 0.8).                         *)
(***************************************************************************)
\* sla_hours_value falling back to the default whatever the priority says
sla_hours_value_default(t) == 72

\* Ticket.sla_hours_value
sla_hours_value(t) == sla_hours[t.priority]

\* Ticket.due_at
due_at(t) == t.created_at + sla_hours_value(t)

\* _has_log asking for SLA_BREACH whatever the action wanted
has_log_breach_only(db, tid, action) ==
  \E i \in DOMAIN db.audit :
    db.audit[i].ticket = tid /\ db.audit[i].action = "SLA_BREACH"

\* services._has_log
has_log(db, tid, action) ==
  \E i \in DOMAIN db.audit :
    db.audit[i].ticket = tid /\ db.audit[i].action = action

\* The users run_sla_check loads when it is not a dry run
role_users == {u \in Users : is_tech(u) \/ is_admin(u)}

\* services._create_notifications (bulk_create; the rows are laid down in one
\* fixed order of the recipients)
RECURSIVE create_notifications(_, _, _, _)
create_notifications(db, users, message, tid) ==
  IF users = {} THEN db
  ELSE LET u == CHOOSE x \in users : TRUE
       IN create_notifications(create_notification(db, u, message, tid),
                               users \ {u}, message, tid)

\* One mail to a list of recipients, then their notifications
sla_mail(db, t, recipients, subject, message) ==
  LET addresses == {email_of(u) : u \in recipients} \ {""}
      db1 == IF addresses = {} THEN db
             ELSE [db EXCEPT !.emails =
                     Append(@, [to |-> addresses, subject |-> subject,
                                ticket |-> t.id])]
  IN create_notifications(db1, recipients, message, t.id)

\* services._email_warn
email_warn(db, t, users) ==
  sla_mail(db, t, users \cup ({t.assigned_to} \ {NoUser}),
           "SLA por vencer", "por vencer su SLA")

\* services._email_breach
email_breach(db, t, users) ==
  sla_mail(db, t, users \cup ({t.assigned_to, t.requester} \ {NoUser}),
           "SLA VENCIDO", "ha vencido su SLA")

\* The body of the loop of run_sla_check for one ticket of the queryset; acc
\* holds the tables and the two counters.
sla_check_ticket(acc, t, warn_pct, dry_run) ==
  LET db == acc.db
      due == due_at(t)
      elapsed_h == now - t.created_at
      users == IF dry_run THEN {} ELSE role_users
  IN IF t.resolved_at # NoTime
       THEN IF t.resolved_at > due /\ ~has_log(db, t.id, "SLA_BREACH")
              THEN [db |-> IF dry_run THEN db
                           ELSE email_breach(
                                  AuditLog_create(db, t.id, NoUser, "SLA_BREACH", NoMeta),
                                  t, users),
                    warnings |-> acc.warnings, breaches |-> acc.breaches + 1]
              ELSE acc
     ELSE IF elapsed_h >= sla_hours_value(t) /\ ~has_log(db, t.id, "SLA_BREACH")
       THEN [db |-> IF dry_run THEN db
                    ELSE email_breach(
                           AuditLog_create(db, t.id, NoUser, "SLA_BREACH",
                                           [NoMeta EXCEPT !.overdue_h = <<now - due>>]),
                           t, users),
             warnings |-> acc.warnings, breaches |-> acc.breaches + 1]
     ELSE IF elapsed_h * 100 >= sla_hours_value(t) * warn_pct
             /\ ~has_log(db, t.id, "SLA_WARN")
       THEN [db |-> IF dry_run THEN db
                    ELSE email_warn(
                           AuditLog_create(db, t.id, NoUser, "SLA_WARN",
                                           [NoMeta EXCEPT !.remaining_h = <<due - now>>]),
                           t, users),
             warnings |-> acc.warnings + 1, breaches |-> acc.breaches]
     ELSE acc

\* The loop of run_sla_check over the tickets from primary key tid on; the
\* queryset holds the OPEN and IN_PROGRESS tickets as they were when it ran.
RECURSIVE sla_check_from(_, _, _, _, _)
sla_check_from(acc, rows, tid, warn_pct, dry_run) ==
  IF tid > Len(rows) THEN acc
  ELSE sla_check_from(
         IF rows[tid].status \in {OPEN, IN_PROGRESS}
           THEN sla_check_ticket(acc, rows[tid], warn_pct, dry_run)
           ELSE acc,
         rows, tid + 1, warn_pct, dry_run)

\* run_sla_check writing whatever dry_run says
run_sla_check_never_dry(db, warn_pct, dry_run) ==
  sla_check_from([db |-> db, warnings |-> 0, breaches |-> 0],
                 db.tickets, 1, warn_pct, FALSE)

\* services.run_sla_check: the counts it returns and the tables it leaves
run_sla_check(db, warn_pct, dry_run) ==
  sla_check_from([db |-> db, warnings |-> 0, breaches |-> 0],
                 db.tickets, 1, warn_pct, dry_run)

\* run_sla_check when the database raises while the sweep emits for ticket
\* fail_tid: on the insert of the AuditLog row (stage "audit"), or, the row,
\* its EventLog row and the mail being out, on the bulk_create of the
\* notifications (stage "notify").  The loop has no try/except: the exception
\* leaves run_sla_check, and the writes made so far stay (autocommit).  When
\* the sweep has nothing to emit for fail_tid nothing raises.
run_sla_check_raising(db, warn_pct, fail_tid, stage) ==
  LET before == sla_check_from([db |-> db, warnings |-> 0, breaches |-> 0],
                               SubSeq(db.tickets, 1, fail_tid - 1), 1, warn_pct,
                               FALSE)
      t == db.tickets[fail_tid]
      counted == sla_check_ticket(before, t, warn_pct, TRUE)
      emits == t.status \in {OPEN, IN_PROGRESS} /\ counted # before
      emitted == sla_check_ticket(before, t, warn_pct, FALSE).db
  IN IF ~emits
       THEN [raised |-> FALSE, db |-> run_sla_check(db, warn_pct, FALSE).db]
     ELSE IF stage = "audit"
       THEN [raised |-> TRUE, db |-> before.db]
     ELSE [raised |-> TRUE,
           db |-> [emitted EXCEPT !.notifications = before.db.notifications]]

\* The values uuid4().hex takes
TmpTokens == {"a", "b"}

(***************************************************************************)
(* Requests.  `last` keeps the request just handled: the operation, the     *)
(* entry point ("api": tickets/api.py, "ui": tickets/views.py), the        *)
(* caller, the ticket, the argument (next_status or to_user_id), the       *)
(* response, the ticket row as it was before the request and whether       *)
(* apply_auto_assign returned True.                                        *)
(***************************************************************************)
Request(op, entry, u, tid, arg, resp, auto) ==
  [op |-> op, entry |-> entry, actor |-> u, tid |-> tid, arg |-> arg,
   resp |-> resp, auto |-> auto,
   pre |-> IF tid \in DOMAIN tickets THEN tickets[tid] ELSE NoTicket]

NoRequest == [op |-> "none", entry |-> "", actor |-> NoUser, tid |-> 0, arg |-> "",
              resp |-> "", auto |-> FALSE, pre |-> NoTicket]

ApiCreate(u, title, category, priority, area) ==
  /\ Commit(perform_create(DB, u, title, category, priority, area))
  /\ last' = Request("create", "api", u, Len(tickets) + 1, NoUser, "ok",
                     auto_assign_applies(
                       Ticket_insert(DB, u, title, category, priority, area, NoUser)
                         .tickets[Len(tickets) + 1]))
  /\ UNCHANGED <<rules, now, inflight>>

UiCreate(u, title, category, priority, area, assignee) ==
  /\ LET chosen == form_assignee(u, assignee) IN
     IF chosen = "invalid"
       THEN /\ UNCHANGED store
            /\ last' = Request("create", "ui", u, 0, assignee, "InvalidForm", FALSE)
       ELSE /\ Commit(ticket_create(DB, u, title, category, priority, area, chosen))
            /\ last' = Request("create", "ui", u, Len(tickets) + 1, chosen, "ok",
                          chosen = NoUser
                          /\ auto_assign_applies(
                               Ticket_insert(DB, u, title, category, priority, area, NoUser)
                                 .tickets[Len(tickets) + 1]))
  /\ UNCHANGED <<rules, now, inflight>>

\* A rejected request returns before its comment (or new title) is read, so
\* rejected requests are enumerated with the empty one only.
ApiTransition(u, tid, next_status, comment, is_internal) ==
  \E r \in {transition(DB, u, tid, next_status, comment, is_internal)} :
    /\ r.resp # "ok" => (comment = "" /\ ~is_internal)
    /\ Commit(r.db)
    /\ last' = Request("transition", "api", u, tid, next_status, r.resp, FALSE)
    /\ UNCHANGED <<rules, now, inflight>>

UiTransition(u, tid, next_status, comment, is_internal) ==
  \E r \in {ticket_transition(DB, u, tid, next_status, comment, is_internal)} :
    /\ r.resp # "ok" => (comment = "" /\ ~is_internal)
    /\ Commit(r.db)
    /\ last' = Request("transition", "ui", u, tid, next_status, r.resp, FALSE)
    /\ UNCHANGED <<rules, now, inflight>>

ApiAssign(u, tid, to_user_id, reason) ==
  \E r \in {assign(DB, u, tid, to_user_id, reason)} :
    /\ Commit(r.db)
    /\ last' = Request("assign", "api", u, tid, to_user_id, r.resp, FALSE)
    /\ UNCHANGED <<rules, now, inflight>>

UiAssign(u, tid, to_user_id, reason, new_title) ==
  \E r \in {ticket_assign(DB, u, tid, to_user_id, reason, new_title)} :
    /\ r.resp # "ok" => new_title = ""
    /\ Commit(r.db)
    /\ last' = Request("assign", "ui", u, tid, to_user_id, r.resp, FALSE)
    /\ UNCHANGED <<rules, now, inflight>>

\* services.apply_auto_assign called on a stored ticket
AutoAssign(tid, actor) ==
  /\ tid \in DOMAIN tickets
  /\ Commit(apply_auto_assign(DB, tid, actor))
  /\ last' = Request("auto", "service", actor, tid, NoUser, "ok",
                     auto_assign_applies(tickets[tid]))
  /\ UNCHANGED <<rules, now, inflight>>

ApiComment(u, tid, body, is_internal) ==
  \E r \in {comments_post(DB, u, tid, body, is_internal)} :
    /\ r.resp # "ok" => ~is_internal
    /\ Commit(r.db)
    /\ last' = Request("comment", "api", u, tid, body, r.resp, FALSE)
    /\ UNCHANGED <<rules, now, inflight>>

UiComment(u, tid, body, is_internal, file) ==
  \E r \in {add_comment(DB, u, tid, body, is_internal, file)} :
    /\ r.resp # "ok" => ~is_internal
    /\ Commit(r.db)
    /\ last' = Request("comment", "ui", u, tid, body, r.resp, FALSE)
    /\ UNCHANGED <<rules, now, inflight>>

ApiAttach(u, tid, file) ==
  \E r \in {attachments_post(DB, u, tid, file)} :
    /\ Commit(r.db)
    /\ last' = Request("attach", "api", u, tid, file.name, r.resp, FALSE)
    /\ UNCHANGED <<rules, now, inflight>>

\* TicketViewSet.perform_create as two steps, so that creations overlap: the
\* first runs Ticket.save up to the INSERT (which the unique index on code
\* refuses when the placeholder is taken) ...
CreateInsert(u, title, category, priority, area, token) ==
  /\ IF code_taken(DB, tmp_code(token))
       THEN /\ UNCHANGED store
            /\ last' = Request("insert", "api", u, 0, token, "IntegrityError", FALSE)
       ELSE /\ Commit(Ticket_save_insert(DB, u, title, category, priority, area,
                                         NoUser, token))
            /\ last' = Request("insert", "api", u, Len(tickets) + 1, token, "ok",
                               FALSE)
  /\ UNCHANGED <<rules, now, inflight>>

\* ... and the second runs the rest: the rewrite of the code, the CREATE
\* entry and apply_auto_assign.
CreateFinish(tid) ==
  /\ tid \in DOMAIN tickets
  /\ tickets[tid].code \in {tmp_code(token) : token \in TmpTokens}
  /\ LET u == tickets[tid].requester
         db1 == Ticket_save_rewrite(DB, tid)
         db2 == AuditLog_create(db1, tid, u, "CREATE", NoMeta)
     IN Commit(apply_auto_assign(db2, tid, u))
  /\ last' = Request("create", "api", tickets[tid].requester, tid, NoUser, "ok",
                     auto_assign_applies(tickets[tid]))
  /\ UNCHANGED <<rules, now, inflight>>

\* What `last` keeps of a sweep: its arguments and the counts it returned
SweepRequest(entry, u, resp, warn_pct, dry_run, warnings, breaches) ==
  [op |-> "sweep", entry |-> entry, actor |-> u, tid |-> 0, arg |-> "",
   resp |-> resp, auto |-> FALSE, pre |-> NoTicket,
   warn_pct |-> warn_pct, dry_run |-> dry_run,
   warnings |-> warnings, breaches |-> breaches]

\* views.reports_check_sla
ReportsCheckSla(u, warn_pct, dry_run) ==
  /\ IF ~is_admin(u)
       THEN /\ UNCHANGED store
            /\ last' = SweepRequest("ui", u, "Forbidden", warn_pct, dry_run, 0, 0)
       ELSE \E r \in {run_sla_check(DB, warn_pct, dry_run)} :
              /\ Commit(r.db)
              /\ last' = SweepRequest("ui", u, "ok", warn_pct, dry_run,
                                      r.warnings, r.breaches)
  /\ UNCHANGED <<rules, now, inflight>>

\* The check_sla management command
CheckSlaCommand(warn_pct, dry_run) ==
  \E r \in {run_sla_check(DB, warn_pct, dry_run)} :
    /\ Commit(r.db)
    /\ last' = SweepRequest("command", NoUser, "ok", warn_pct, dry_run,
                            r.warnings, r.breaches)
    /\ UNCHANGED <<rules, now, inflight>>

\* The check_sla command when the database raises during the sweep: the
\* command does not catch the exception either and ends with a traceback.
CheckSlaCommandRaising(warn_pct, fail_tid, stage) ==
  /\ fail_tid \in DOMAIN tickets
  /\ \E r \in {run_sla_check_raising(DB, warn_pct, fail_tid, stage)} :
       /\ r.raised
       /\ Commit(r.db)
       /\ last' = [SweepRequest("command", NoUser, "Error", warn_pct, FALSE, 0, 0)
                     EXCEPT !.tid = fail_tid, !.arg = stage]
  /\ UNCHANGED <<rules, now, inflight>>

\* `hours` hours pass between requests.
Wait(hours) ==
  /\ now' = now + hours
  /\ last' = [NoRequest EXCEPT !.op = "tick"]
  /\ UNCHANGED <<tickets, comments, attachments, assignments, audit, events,
                 notifications, emails, rules, inflight>>

\* No handler opens a transaction (there is no transaction.atomic and no
\* ATOMIC_REQUESTS), so each write is committed when it is made.  A transition
\* that the code accepted and that is interrupted (the process is killed, the
\* database or a post_save receiver raises) after the first `upto` writes of
\* TicketViewSet.transition leaves those writes behind.
ApiTransitionInterrupted(u, tid, next_status, comment, is_internal, upto) ==
  /\ transition_response(DB, u, tid, next_status) = "ok"
  /\ Commit(transition_writes(DB, u, tid, next_status, comment, is_internal, upto))
  /\ last' = Request("transition", "api", u, tid, next_status, "Interrupted", FALSE)
  /\ UNCHANGED <<rules, now, inflight>>

\* The same for views.ticket_transition
UiTransitionInterrupted(u, tid, next_status, comment, is_internal, upto) ==
  /\ ticket_transition_response(DB, u, tid, next_status) = "ok"
  /\ Commit(ticket_transition_writes(DB, u, tid, next_status, comment,
                                     is_internal, upto))
  /\ last' = Request("transition", "ui", u, tid, next_status, "Interrupted", FALSE)
  /\ UNCHANGED <<rules, now, inflight>>

\* Time passes between requests.
Tick ==
  /\ now' = now + 1
  /\ last' = [NoRequest EXCEPT !.op = "tick"]
  /\ UNCHANGED <<tickets, comments, attachments, assignments, audit, events,
                 notifications, emails, rules, inflight>>

(***************************************************************************)
(* Requests served side by side.  The deployment runs several worker       *)
(* processes over one database; no handler opens a transaction or locks a  *)
(* row, so every ORM call of a handler is a step of its own and the calls  *)
(* of two requests interleave.  inflight[w] is the request worker w is in  *)
(* the middle of: the instance it loaded and how far it got.               *)
(***************************************************************************)
Workers == {"w1", "w2"}

NoTables ==
  [tickets |-> <<>>, comments |-> <<>>, attachments |-> <<>>, assignments |-> <<>>,
   audit |-> <<>>, events |-> <<>>, notifications |-> <<>>, emails |-> <<>>]

\* pc: "idle", then "loaded" (get_object / get_object_or_404 and the checks
\* passed), "saved" (ticket.save() returned), "done" (the response is out).
\* old_status is instance._old_status; base holds the tables as they were
\* when the request (or the one it overlaps with) began.  A sweep holds the
\* rows of its queryset, the position of its loop in them and, at pc
\* "checked", the action whose _has_log test it has just passed.
NoCall ==
  [op |-> "none", entry |-> "", actor |-> NoUser, tid |-> 0, arg |-> "",
   pc |-> "idle", inst |-> NoTicket, old_status |-> "", overlapped |-> FALSE,
   base |-> NoTables, warn_pct |-> 0, rows |-> <<>>, pos |-> 0, decided |-> ""]

\* No request is in the middle of its writes.
Quiescent == \A w \in Workers : inflight[w].pc \in {"idle", "done"}

Busy(w) == {v \in Workers \ {w} : inflight[v].pc \notin {"idle", "done"}}

\* Worker w is free, and at most one other request is under way.  Workers
\* are interchangeable: a request that arrives while nothing else is under
\* way is taken by w1.
CanStart(w) ==
  /\ inflight[w].pc \in {"idle", "done"}
  /\ Cardinality(Busy(w)) <= 1
  /\ \A v \in Busy(w) : ~inflight[v].overlapped
  /\ Busy(w) = {} => w = "w1"

\* Worker w takes up the request `call` after loading the ticket.
Started(w, call) ==
  [v \in Workers |->
     IF v = w
       THEN [call EXCEPT !.overlapped = (Busy(w) # {}),
                         !.base = IF Busy(w) = {} THEN DB
                                  ELSE inflight[CHOOSE b \in Busy(w) : TRUE].base]
     ELSE IF v \in Busy(w) THEN [inflight[v] EXCEPT !.overlapped = TRUE]
     ELSE NoCall]

Call(op, entry, u, tid, arg) ==
  [NoCall EXCEPT !.op = op, !.entry = entry, !.actor = u, !.tid = tid,
                 !.arg = arg, !.pc = "loaded", !.inst = tickets[tid]]

\* What `last` says after a step of worker w's request
StepOf(w, call, pc) ==
  [op |-> call.op, entry |-> call.entry, actor |-> call.actor, tid |-> call.tid,
   arg |-> call.arg, resp |-> IF pc = "done" THEN "ok" ELSE "", auto |-> FALSE,
   pre |-> call.inst, worker |-> w, pc |-> pc]

\* TicketViewSet.transition up to `previous_status = ticket.status`
ApiTransitionLoad(w, u, tid, next_status) ==
  /\ CanStart(w)
  /\ transition_response(DB, u, tid, next_status) = "ok"
  /\ inflight' = Started(w, Call("transition", "api", u, tid, next_status))
  /\ last' = StepOf(w, Call("transition", "api", u, tid, next_status), "loaded")
  /\ UNCHANGED <<tickets, comments, attachments, assignments, audit, events,
                 notifications, emails, rules, now>>

\* views.ticket_transition up to `previous_status = t.status`
UiTransitionLoad(w, u, tid, next_status) ==
  /\ CanStart(w)
  /\ ticket_transition_response(DB, u, tid, next_status) = "ok"
  /\ inflight' = Started(w, Call("transition", "ui", u, tid, next_status))
  /\ last' = StepOf(w, Call("transition", "ui", u, tid, next_status), "loaded")
  /\ UNCHANGED <<tickets, comments, attachments, assignments, audit, events,
                 notifications, emails, rules, now>>

\* ticket.save() of either transition handler: a save of every column of the
\* loaded instance, with the stamps set and the post_save entry suppressed.
\* pre_save reads the row's status as it is now into _old_status.
TransitionSave(w) ==
  /\ inflight[w].op = "transition"
  /\ inflight[w].pc = "loaded"
  /\ Commit(Ticket_save(DB, transition_stamp(inflight[w].inst, inflight[w].arg),
                        {}, TRUE, inflight[w].actor))
  /\ inflight' = [inflight EXCEPT ![w].pc = "saved",
                                  ![w].old_status =
                                     stash_old_status(DB, inflight[w].inst)]
  /\ last' = StepOf(w, inflight[w], "saved")
  /\ UNCHANGED <<rules, now>>

\* The STATUS entry of TicketViewSet.transition, from the status it loaded
transition_log(db, call) ==
  AuditLog_create(db, call.tid, call.actor, "STATUS",
                  status_meta(call.inst.status, call.arg, "", FALSE))

\* The STATUS entry of views.ticket_transition, from _old_status when the
\* hook left one, and the two notifications
ticket_transition_log(db, call) ==
  LET previous_status == IF call.old_status # "" THEN call.old_status
                         ELSE call.inst.status
      db3 == AuditLog_create(db, call.tid, call.actor, "STATUS",
                             status_meta(previous_status, call.arg, "", FALSE))
  IN create_notification(
       create_notification(db3, call.inst.requester, "estado actualizado", call.tid),
       call.inst.assigned_to, "estado actualizado", call.tid)

\* The rest of either transition handler after the save
TransitionLog(w) ==
  /\ inflight[w].op = "transition"
  /\ inflight[w].pc = "saved"
  /\ Commit(IF inflight[w].entry = "api" THEN transition_log(DB, inflight[w])
            ELSE ticket_transition_log(DB, inflight[w]))
  /\ inflight' = [inflight EXCEPT ![w].pc = "done"]
  /\ last' = StepOf(w, inflight[w], "done")
  /\ UNCHANGED <<rules, now>>

\* TicketViewSet.assign up to `prev = ticket.assigned_to`
ApiAssignLoad(w, u, tid, to_user_id) ==
  /\ CanStart(w)
  /\ assign_response(DB, u, tid, to_user_id) = "ok"
  /\ inflight' = Started(w, Call("assign", "api", u, tid, to_user_id))
  /\ last' = StepOf(w, Call("assign", "api", u, tid, to_user_id), "loaded")
  /\ UNCHANGED <<tickets, comments, attachments, assignments, audit, events,
                 notifications, emails, rules, now>>

\* views.ticket_assign up to `prev = t.assigned_to` (no new title posted)
UiAssignLoad(w, u, tid, to_user_id) ==
  /\ CanStart(w)
  /\ ticket_assign_response(DB, u, tid, to_user_id) = "ok"
  /\ inflight' = Started(w, Call("assign", "ui", u, tid,
                                 ticket_assign_target(u, to_user_id)))
  /\ last' = StepOf(w, Call("assign", "ui", u, tid,
                            ticket_assign_target(u, to_user_id)), "loaded")
  /\ UNCHANGED <<tickets, comments, attachments, assignments, audit, events,
                 notifications, emails, rules, now>>

\* ticket.save(update_fields=["assigned_to", "updated_at"]) of either assign
\* handler
AssignSave(w) ==
  /\ inflight[w].op = "assign"
  /\ inflight[w].pc = "loaded"
  /\ Commit(Ticket_save(DB, [inflight[w].inst EXCEPT !.assigned_to = inflight[w].arg],
                        {"assigned_to", "updated_at"}, FALSE, NoUser))
  /\ inflight' = [inflight EXCEPT ![w].pc = "saved"]
  /\ last' = StepOf(w, inflight[w], "saved")
  /\ UNCHANGED <<rules, now>>

\* TicketAssignment.objects.create and the ASSIGN entry of TicketViewSet.assign
assign_record(db, call) ==
  AuditLog_create(TicketAssignment_create(db, call.tid, call.actor, call.arg, ""),
                  call.tid, call.actor, "ASSIGN",
                  [NoMeta EXCEPT !.from = call.inst.assigned_to, !.to = call.arg])

\* The same of views.ticket_assign, and its two notifications
ticket_assign_record(db, call) ==
  LET db2 == TicketAssignment_create(db, call.tid, call.actor, call.arg, "")
      db3 == AuditLog_create(db2, call.tid, call.actor, "ASSIGN",
               [NoMeta EXCEPT !.from = call.inst.assigned_to, !.to = call.arg,
                              !.title_from = call.inst.title,
                              !.title_to = call.inst.title])
      db4 == create_notification(db3, call.arg, "te ha sido asignado", call.tid)
  IN create_notification(db4, call.inst.requester, "asignado", call.tid)

\* The rest of either assign handler after the save
AssignRecord(w) ==
  /\ inflight[w].op = "assign"
  /\ inflight[w].pc = "saved"
  /\ Commit(IF inflight[w].entry = "api" THEN assign_record(DB, inflight[w])
            ELSE ticket_assign_record(DB, inflight[w]))
  /\ inflight' = [inflight EXCEPT ![w].pc = "done"]
  /\ last' = StepOf(w, inflight[w], "done")
  /\ UNCHANGED <<rules, now>>

\* The branch the body of run_sla_check's loop takes for ticket t against
\* the AuditLog as it is: the action whose _has_log test passes, or "".
sla_decision(db, t, warn_pct) ==
  LET r == sla_check_ticket([db |-> db, warnings |-> 0, breaches |-> 0], t,
                            warn_pct, TRUE)
  IN IF r.breaches = 1 THEN "SLA_BREACH"
     ELSE IF r.warnings = 1 THEN "SLA_WARN"
     ELSE ""

\* The writes of that branch, AuditLog.objects.create and _email_breach or
\* _email_warn, on the tables as they are when the branch gets to them
sla_emit(db, t, action) ==
  IF action = "SLA_BREACH"
    THEN email_breach(
           AuditLog_create(db, t.id, NoUser, "SLA_BREACH",
                           IF t.resolved_at # NoTime THEN NoMeta
                           ELSE [NoMeta EXCEPT !.overdue_h = <<now - due_at(t)>>]),
           t, role_users)
    ELSE email_warn(
           AuditLog_create(db, t.id, NoUser, "SLA_WARN",
                           [NoMeta EXCEPT !.remaining_h = <<due_at(t) - now>>]),
           t, role_users)

\* Where the loop of a sweep stands after the ticket at pos
sweep_pc(call) == IF call.pos + 1 > Len(call.rows) THEN "done" ELSE "loaded"

\* run_sla_check (not dry) up to its loop: the queryset of the OPEN and
\* IN_PROGRESS tickets, evaluated once
SweepLoad(w, entry, warn_pct) ==
  /\ CanStart(w)
  /\ \E rows \in {SelectSeq(tickets, LAMBDA t : t.status \in {OPEN, IN_PROGRESS})} :
       \E call \in {[NoCall EXCEPT !.op = "sweep", !.entry = entry,
                                   !.warn_pct = warn_pct, !.rows = rows, !.pos = 1,
                                   !.pc = IF rows = <<>> THEN "done" ELSE "loaded"]} :
         /\ inflight' = Started(w, call)
         /\ last' = StepOf(w, call, call.pc)
  /\ UNCHANGED <<tickets, comments, attachments, assignments, audit, events,
                 notifications, emails, rules, now>>

\* The tests of the loop body for the ticket at pos, _has_log included
SweepCheck(w) ==
  /\ inflight[w].op = "sweep"
  /\ inflight[w].pc = "loaded"
  /\ \E action \in {sla_decision(DB, inflight[w].rows[inflight[w].pos],
                                  inflight[w].warn_pct)} :
       IF action = ""
         THEN /\ inflight' = [inflight EXCEPT ![w].pos = @ + 1,
                                              ![w].pc = sweep_pc(inflight[w])]
              /\ last' = StepOf(w, inflight[w], sweep_pc(inflight[w]))
         ELSE /\ inflight' = [inflight EXCEPT ![w].decided = action,
                                              ![w].pc = "checked"]
              /\ last' = StepOf(w, inflight[w], "checked")
  /\ UNCHANGED <<tickets, comments, attachments, assignments, audit, events,
                 notifications, emails, rules, now>>

\* The writes of the branch whose test passed
SweepEmit(w) ==
  /\ inflight[w].op = "sweep"
  /\ inflight[w].pc = "checked"
  /\ Commit(sla_emit(DB, inflight[w].rows[inflight[w].pos], inflight[w].decided))
  /\ inflight' = [inflight EXCEPT ![w].pos = @ + 1, ![w].decided = "",
                                  ![w].pc = sweep_pc(inflight[w])]
  /\ last' = StepOf(w, inflight[w], sweep_pc(inflight[w]))
  /\ UNCHANGED <<rules, now>>

(***************************************************************************)
(* The inputs requests are drawn from.                                     *)
(***************************************************************************)
Categories == {"Hardware", "Software"}
Areas == {"Floor3", "Floor4"}
TicketIds == 1..MaxTickets
NextStatuses == {OPEN, IN_PROGRESS, RESOLVED, CLOSED, "BOGUS"}
\* <<comment, internal>> of a transition request
CommentInputs == {<<"", FALSE>>, <<"c", FALSE>>, <<"c", TRUE>>}
\* who opens tickets, and the assignee an opener may post with the UI form
Creators == {"admin", "req1"}
Assignees == {NoUser, "tech1", "req1"}
Targets == Users \cup {NoUser, GhostUser}
NewTitles == {"", "t1"}

\* One rule of the deployment: Hardware tickets of any area go to tech1.
SeedRules ==
  <<[category |-> "Hardware", area |-> NoArea, tech |-> "tech1", is_active |-> TRUE]>>

Init ==
  /\ tickets = <<>>
  /\ comments = <<>>
  /\ attachments = <<>>
  /\ assignments = <<>>
  /\ audit = <<>>
  /\ events = <<>>
  /\ notifications = <<>>
  /\ emails = <<>>
  /\ rules = SeedRules
  /\ now = 0
  /\ last = NoRequest
  /\ inflight = [w \in Workers |-> NoCall]

\* The bounds of a run: the rows the tables may hold and the clock's range.
Within(max_audit) ==
  /\ Len(tickets') <= MaxTickets
  /\ Len(audit') <= max_audit
  /\ now' <= MaxTime

\* A run is a sequence of accepted requests (and ticks) that may end with one
\* rejected request: the requests that follow a rejected one are those that
\* follow the state before it whenever the rejected one changed nothing, and
\* RejectedChangesNothing checks every rejected request for that.
Accepted == last.resp \in {"", "ok"}

(***************************************************************************)
(* Spec: every request of every caller, on both entry points.              *)
(***************************************************************************)
Next ==
  \/ \E u \in Creators, c \in Categories :
       Accepted /\ ApiCreate(u, "t0", c, "Normal", "Floor3") /\ Within(MaxAudit)
  \/ \E u \in Creators, c \in Categories, a \in Assignees :
       Accepted /\ UiCreate(u, "t0", c, "Normal", "Floor3", a) /\ Within(MaxAudit)
  \/ \E u \in Users, tid \in TicketIds, n \in NextStatuses, ci \in CommentInputs :
       Accepted /\ ApiTransition(u, tid, n, ci[1], ci[2]) /\ Within(MaxAudit)
  \/ \E u \in Users, tid \in TicketIds, n \in NextStatuses, ci \in CommentInputs :
       Accepted /\ UiTransition(u, tid, n, ci[1], ci[2]) /\ Within(MaxAudit)
  \/ \E u \in Users, tid \in TicketIds, to \in Targets :
       Accepted /\ ApiAssign(u, tid, to, "r") /\ Within(MaxAudit)
  \/ \E u \in Users, tid \in TicketIds, to \in Targets, nt \in NewTitles :
       Accepted /\ UiAssign(u, tid, to, "r", nt) /\ Within(MaxAudit)

Spec == Init /\ [][Next]_vars

(***************************************************************************)
(* SpecLife: the life of a ticket in depth, with time passing: tickets     *)
(* opened through the UI (unassigned, or assigned to tech1 by the          *)
(* administrator), then transition requests of every caller on both entry  *)
(* points.                                                                 *)
(***************************************************************************)
NextLife ==
  \/ \E u \in Creators, a \in {NoUser, "tech1"} :
       Accepted /\ UiCreate(u, "t0", "Software", "Normal", "Floor3", a) /\ Within(MaxLifeAudit)
  \/ \E u \in Users, tid \in TicketIds, n \in DOMAIN STATUS_CHOICES :
       Accepted /\ ApiTransition(u, tid, n, "", FALSE) /\ Within(MaxLifeAudit)
  \/ \E u \in Users, tid \in TicketIds, n \in DOMAIN STATUS_CHOICES :
       Accepted /\ UiTransition(u, tid, n, "", FALSE) /\ Within(MaxLifeAudit)
  \/ Accepted /\ Tick /\ Within(MaxLifeAudit)

SpecLife == Init /\ [][NextLife]_vars

(***************************************************************************)
(* SpecCrash: transitions that may be interrupted between two writes.  A   *)
(* run sees at most one interruption, as its last step.                    *)
(***************************************************************************)
NextCrash ==
  \/ \E u \in Creators, a \in {NoUser, "tech1"} :
       Accepted /\ UiCreate(u, "t0", "Software", "Normal", "Floor3", a) /\ Within(MaxAudit)
  \/ \E u \in Users, tid \in TicketIds, n \in DOMAIN STATUS_CHOICES,
        ci \in CommentInputs :
       Accepted /\ ApiTransition(u, tid, n, ci[1], ci[2]) /\ Within(MaxAudit)
  \/ \E u \in Users, tid \in TicketIds, n \in DOMAIN STATUS_CHOICES,
        ci \in CommentInputs :
       Accepted /\ UiTransition(u, tid, n, ci[1], ci[2]) /\ Within(MaxAudit)
  \/ \E u \in Users, tid \in TicketIds, n \in DOMAIN STATUS_CHOICES,
        ci \in CommentInputs, upto \in 1..2 :
       Accepted /\ ApiTransitionInterrupted(u, tid, n, ci[1], ci[2], upto)
                /\ Within(MaxAudit)
  \/ \E u \in Users, tid \in TicketIds, n \in DOMAIN STATUS_CHOICES,
        ci \in CommentInputs, upto \in 1..3 :
       Accepted /\ UiTransitionInterrupted(u, tid, n, ci[1], ci[2], upto)
                /\ Within(MaxAudit)

SpecCrash == Init /\ [][NextCrash]_vars

(***************************************************************************)
(* SpecAuto: tickets opened under every table of auto-assign rules.        *)
(***************************************************************************)
\* The rows the rule form can save: category and area are optional, the
\* technician is a user of the technician group.
RuleSpace ==
  [category : {NoCategory, "Hardware"}, area : {NoArea, "Floor3"},
   tech : {"tech1", "tech2"}, is_active : BOOLEAN]

\* uniq_auto_rule_cat_area: no two rows with the same category and area, when
\* both are set (a row with a NULL is not compared).
uniq_auto_rule_cat_area(table) ==
  \A i, j \in DOMAIN table :
    (/\ i # j
     /\ table[i].category # NoCategory
     /\ table[i].area # NoArea)
      => ~(table[i].category = table[j].category /\ table[i].area = table[j].area)

RuleTables ==
  {table \in UNION {[1..n -> RuleSpace] : n \in 0..MaxRules} :
     uniq_auto_rule_cat_area(table)}

\* The area of a new ticket is optional.
TicketAreas == Areas \cup {NoArea}

InitAuto ==
  /\ tickets = <<>>
  /\ comments = <<>>
  /\ attachments = <<>>
  /\ assignments = <<>>
  /\ audit = <<>>
  /\ events = <<>>
  /\ notifications = <<>>
  /\ emails = <<>>
  /\ rules \in RuleTables
  /\ now = 0
  /\ last = NoRequest
  /\ inflight = [w \in Workers |-> NoCall]

NextAuto ==
  \/ \E u \in Creators, c \in Categories, a \in TicketAreas :
       Accepted /\ ApiCreate(u, "t0", c, "Normal", a) /\ Within(MaxAudit)
  \/ \E u \in Creators, c \in Categories, a \in TicketAreas,
        by_hand \in {NoUser, "tech1"} :
       Accepted /\ UiCreate(u, "t0", c, "Normal", a, by_hand) /\ Within(MaxAudit)
  \/ \E tid \in TicketIds, actor \in {NoUser, "admin"} :
       Accepted /\ AutoAssign(tid, actor) /\ Within(MaxAudit)

SpecAuto == InitAuto /\ [][NextAuto]_vars

(***************************************************************************)
(* SpecSla: SLA sweeps from the report page and from the command, between  *)
(* creations, assignments, transitions and waits.  The clock counts hours. *)
(***************************************************************************)
\* warn_ratio in hundredths
WarnRatios == {50, 80}
\* the waits between requests, in hours
Waits == {5, 20}

WithinSla ==
  /\ Len(tickets') <= MaxTickets
  /\ Len(audit') <= MaxSlaAudit
  /\ now' <= MaxSlaTime

NextSla ==
  \/ \E p \in Priorities :
       Accepted /\ ApiCreate("req1", "t0", "Software", p, "Floor3") /\ WithinSla
  \/ \E tid \in TicketIds, n \in DOMAIN STATUS_CHOICES :
       Accepted /\ UiTransition("admin", tid, n, "", FALSE) /\ WithinSla
  \/ \E tid \in TicketIds :
       Accepted /\ ApiAssign("admin", tid, "tech1", "r") /\ WithinSla
  \/ \E u \in {"admin", "tech1"}, w \in WarnRatios, dry_run \in BOOLEAN :
       Accepted /\ ReportsCheckSla(u, w, dry_run) /\ WithinSla
  \/ \E w \in WarnRatios, dry_run \in BOOLEAN :
       Accepted /\ CheckSlaCommand(w, dry_run) /\ WithinSla
  \/ \E h \in Waits : Accepted /\ Wait(h) /\ WithinSla

SpecSla == Init /\ [][NextSla]_vars

(***************************************************************************)
(* SpecTrail: every producer of AuditLog entries: creation with and        *)
(* without auto-assignment, assignment, transition, comment, attachment    *)
(* and SLA sweep, on the API and on the UI.                                *)
(***************************************************************************)
Bodies == {"", " ", "c"}
Files == {NoFile, [name |-> "a.pdf", ext |-> ".pdf"],
          [name |-> "a.exe", ext |-> ".exe"]}
\* callers of SpecTrail
TrailUsers == {"admin", "tech1"}

WithinTrail ==
  /\ Len(tickets') <= MaxTickets
  /\ Len(audit') <= MaxTrailAudit
  /\ now' <= MaxSlaTime

NextTrail ==
  \/ \E c \in Categories :
       Accepted /\ ApiCreate("req1", "t0", c, "Urgente", "Floor3") /\ WithinTrail
  \/ Accepted /\ UiCreate("admin", "t0", "Software", "Urgente", "Floor3", "tech1")
              /\ WithinTrail
  \/ \E u \in TrailUsers, tid \in TicketIds, n \in DOMAIN STATUS_CHOICES :
       Accepted /\ ApiTransition(u, tid, n, "c", TRUE) /\ WithinTrail
  \/ \E tid \in TicketIds, n \in DOMAIN STATUS_CHOICES :
       Accepted /\ UiTransition("admin", tid, n, "", FALSE) /\ WithinTrail
  \/ \E u \in TrailUsers, tid \in TicketIds :
       Accepted /\ ApiAssign(u, tid, "tech1", "r") /\ WithinTrail
  \/ \E tid \in TicketIds :
       Accepted /\ UiAssign("admin", tid, "tech2", "", "t1") /\ WithinTrail
  \/ \E u \in TrailUsers, tid \in TicketIds, b \in Bodies :
       Accepted /\ ApiComment(u, tid, b, FALSE) /\ WithinTrail
  \/ \E tid \in TicketIds, b \in Bodies, i \in BOOLEAN, f \in Files :
       Accepted /\ UiComment("req1", tid, b, i, f) /\ WithinTrail
  \/ \E u \in TrailUsers, tid \in TicketIds, f \in Files :
       Accepted /\ ApiAttach(u, tid, f) /\ WithinTrail
  \/ \E dry_run \in BOOLEAN :
       Accepted /\ CheckSlaCommand(50, dry_run) /\ WithinTrail
  \/ Accepted /\ Wait(20) /\ WithinTrail

SpecTrail == Init /\ [][NextTrail]_vars

(***************************************************************************)
(* SpecCode: creations that overlap; each is an insert and, later, the     *)
(* rest of perform_create.  Assignments come in between.                   *)
(***************************************************************************)
WithinCode ==
  /\ Len(tickets') <= MaxCodeTickets
  /\ Len(audit') <= MaxCodeAudit

NextCode ==
  \/ \E u \in Creators, c \in Categories, token \in TmpTokens :
       Accepted /\ CreateInsert(u, "t0", c, "Normal", "Floor3", token) /\ WithinCode
  \/ \E tid \in 1..MaxCodeTickets :
       Accepted /\ CreateFinish(tid) /\ WithinCode
  \/ \E tid \in 1..MaxCodeTickets :
       Accepted /\ ApiAssign("admin", tid, "tech2", "r") /\ WithinCode

SpecCode == Init /\ [][NextCode]_vars

(***************************************************************************)
(* SpecFault: sweeps over several tickets, during which the database may   *)
(* raise.                                                                  *)
(***************************************************************************)
WithinFault ==
  /\ Len(tickets') <= MaxFaultTickets
  /\ Len(audit') <= MaxFaultAudit
  /\ now' <= MaxSlaTime

NextFault ==
  \/ \E p \in Priorities :
       Accepted /\ ApiCreate("req1", "t0", "Software", p, "Floor3") /\ WithinFault
  \/ \E w \in WarnRatios, dry_run \in BOOLEAN :
       Accepted /\ CheckSlaCommand(w, dry_run) /\ WithinFault
  \/ \E w \in WarnRatios, tid \in 1..MaxFaultTickets, stage \in {"audit", "notify"} :
       Accepted /\ CheckSlaCommandRaising(w, tid, stage) /\ WithinFault
  \/ \E h \in Waits : Accepted /\ Wait(h) /\ WithinFault

SpecFault == Init /\ [][NextFault]_vars

(***************************************************************************)
(* Two workers serving transitions and assigns of the administrator on the *)
(* same tickets, their ORM calls interleaved.                               *)
(***************************************************************************)
RaceStatuses == {OPEN, IN_PROGRESS, RESOLVED, CLOSED}
RaceTargets == {"tech1", "tech2"}

WithinRace ==
  /\ Len(tickets') <= MaxTickets
  /\ Len(audit') <= MaxRaceAudit

NextRace ==
  \/ Accepted /\ ApiCreate("req1", "t0", "Software", "Normal", "Floor3") /\ WithinRace
  \/ \E w \in Workers, tid \in TicketIds, n \in RaceStatuses :
       Accepted /\ ApiTransitionLoad(w, "admin", tid, n) /\ WithinRace
  \/ \E w \in Workers, tid \in TicketIds, n \in RaceStatuses :
       Accepted /\ UiTransitionLoad(w, "admin", tid, n) /\ WithinRace
  \/ \E w \in Workers : Accepted /\ TransitionSave(w) /\ WithinRace
  \/ \E w \in Workers : Accepted /\ TransitionLog(w) /\ WithinRace
  \/ \E w \in Workers, tid \in TicketIds, to \in RaceTargets :
       Accepted /\ ApiAssignLoad(w, "admin", tid, to) /\ WithinRace
  \/ \E w \in Workers, tid \in TicketIds, to \in RaceTargets :
       Accepted /\ UiAssignLoad(w, "admin", tid, to) /\ WithinRace
  \/ \E w \in Workers : Accepted /\ AssignSave(w) /\ WithinRace
  \/ \E w \in Workers : Accepted /\ AssignRecord(w) /\ WithinRace

SpecRace == Init /\ [][NextRace]_vars

(***************************************************************************)
(* Two sweeps at the same time: the check_sla command of the scheduler and *)
(* the sweep an administrator starts from the reports page.                *)
(***************************************************************************)
WithinSweeps ==
  /\ Len(tickets') <= MaxTickets
  /\ Len(audit') <= MaxSweepsAudit
  /\ now' <= MaxSlaTime

NextSweeps ==
  \/ \E p \in Priorities :
       Accepted /\ ApiCreate("req1", "t0", "Software", p, "Floor3") /\ WithinSweeps
  \/ \E w \in Workers, entry \in {"command", "ui"}, warn_pct \in WarnRatios :
       Accepted /\ SweepLoad(w, entry, warn_pct) /\ WithinSweeps
  \/ \E w \in Workers : Accepted /\ SweepCheck(w) /\ WithinSweeps
  \/ \E w \in Workers : Accepted /\ SweepEmit(w) /\ WithinSweeps
  \/ \E h \in Waits : Accepted /\ Quiescent /\ Wait(h) /\ WithinSweeps

SpecSweeps == Init /\ [][NextSweeps]_vars

(***************************************************************************)
(* Properties of the life cycle, checked under SpecLife.                   *)
(***************************************************************************)
\* The edges of the status matrix that a transition may take.
LegalEdges ==
  {<<OPEN, IN_PROGRESS>>, <<IN_PROGRESS, RESOLVED>>, <<IN_PROGRESS, OPEN>>,
   <<RESOLVED, CLOSED>>, <<RESOLVED, IN_PROGRESS>>}

\* The actors entitled to move ticket t: an administrator, or the technician
\* the ticket is assigned to.
Authorized(u, t) == is_admin(u) \/ (is_tech(u) /\ t.assigned_to = u)

\* The last request was a transition of an existing ticket.
TransitionAsked == last.op = "transition" /\ last.pre.id # 0

\* C1: on both entry points, a transition an authorized actor (administrator
\* or assigned technician) requests from status s to status n, both among the
\* four statuses, succeeds if and only if (s, n) is a legal edge, and every
\* other pair of the 4x4 matrix is rejected as IllegalTransition.
TransitionMatrix ==
  (/\ TransitionAsked
   /\ Authorized(last.actor, last.pre)
   /\ last.arg \in DOMAIN STATUS_CHOICES)
    => last.resp = (IF <<last.pre.status, last.arg>> \in LegalEdges
                      THEN "ok" ELSE "IllegalTransition")

\* The request that departs from it: the administrator asks the UI to move a
\* CLOSED ticket and is told 403 ("No autorizado").
ClosedForbiddenInUi ==
  /\ TransitionAsked
  /\ last.entry = "ui"
  /\ last.actor = "admin"
  /\ last.pre.status = CLOSED
  /\ last.arg = OPEN
  /\ last.resp = "Unauthorized"

\* C2: once a ticket is CLOSED no transition request of any actor succeeds,
\* on either entry point, and the ticket is CLOSED in every later state.
ClosedIsTerminal ==
  [][/\ \A tid \in DOMAIN tickets :
          tickets[tid].status = CLOSED
            => (tid \in DOMAIN tickets' /\ tickets'[tid].status = CLOSED)
     /\ (last'.op = "transition" /\ last'.pre.status = CLOSED)
          => last'.resp # "ok"]_vars

\* Every kind of actor has asked to move a CLOSED ticket: here a requester,
\* through the API, asks to reopen the ticket the administrator closed.
ClosedTicketAsked ==
  /\ TransitionAsked
  /\ last.pre.status = CLOSED
  /\ last.actor = "req1"
  /\ last.entry = "api"
  /\ last.arg = IN_PROGRESS
  /\ tickets[last.tid].status = CLOSED

\* C3: once resolved_at (closed_at) of a ticket is set it is never null again
\* and never decreases, whatever transitions follow, a reopening followed by
\* a second resolution included.
StampsNeverGoBack ==
  [][\A tid \in DOMAIN tickets :
       /\ tid \in DOMAIN tickets'
       /\ tickets[tid].resolved_at # NoTime
            => (/\ tickets'[tid].resolved_at # NoTime
                /\ tickets'[tid].resolved_at >= tickets[tid].resolved_at)
       /\ tickets[tid].closed_at # NoTime
            => (/\ tickets'[tid].closed_at # NoTime
                /\ tickets'[tid].closed_at >= tickets[tid].closed_at)]_vars

\* A ticket resolved, reopened and, after time has passed, resolved again.
ResolvedAgain ==
  /\ TransitionAsked
  /\ last.resp = "ok"
  /\ last.arg = RESOLVED
  /\ last.pre.resolved_at # NoTime
  /\ tickets[last.tid].resolved_at > last.pre.resolved_at

(***************************************************************************)
(* Properties of authorization and of rejected requests, checked under     *)
(* Spec.                                                                   *)
(***************************************************************************)
\* C4: a transition succeeds only for an administrator or the technician the
\* ticket is assigned to; one requested by anybody else (a requester, or a
\* technician who is not the assignee) is rejected as Unauthorized whatever
\* next_status is, and changes nothing.
OnlyAuthorizedTransition ==
  [][(/\ last'.op = "transition"
      /\ last'.pre.id # 0
      /\ ~Authorized(last'.actor, last'.pre))
       => (last'.resp = "Unauthorized" /\ UNCHANGED store)]_vars

\* The request that departs from it: tech1 is assigned, tech2 asks the API to
\* start the ticket and is told 404.
OtherTechnicianNotFound ==
  /\ TransitionAsked
  /\ last.entry = "api"
  /\ last.actor = "tech2"
  /\ last.pre.assigned_to = "tech1"
  /\ last.pre.status = OPEN
  /\ last.arg = IN_PROGRESS
  /\ last.resp = "NotFound"

\* The last request was an assignment of an existing ticket.
AssignAsked == last.op = "assign" /\ last.pre.id # 0

\* The user request r gives the ticket to: the API takes the posted
\* to_user_id, the UI the one views.ticket_assign settles on, the creation
\* form the assignee it accepted.
HandTarget(r) ==
  IF r.op = "assign" /\ r.entry = "ui"
    THEN ticket_assign_target(r.actor, r.arg) ELSE r.arg

AssignTarget == HandTarget(last)

\* C5: an assign request is rejected as Unauthorized exactly when the actor is
\* neither an administrator nor a technician whose target is themself; a
\* technician assigning any ticket to themself is accepted; a requester's
\* assign is always rejected as Unauthorized and leaves the assignee alone.
AssignAuthorization ==
  AssignAsked =>
    /\ (last.resp = "Unauthorized")
         <=> ~(is_admin(last.actor)
               \/ (is_tech(last.actor) /\ AssignTarget = last.actor))
    /\ (is_tech(last.actor) /\ AssignTarget = last.actor) => last.resp = "ok"
    /\ ~(is_admin(last.actor) \/ is_tech(last.actor))
         => (/\ last.resp = "Unauthorized"
             /\ tickets[last.tid].assigned_to = last.pre.assigned_to)

\* The request that departs from it: tech2 asks the API to take an unassigned
\* ticket for themself and is told 404.
SelfAssignNotFound ==
  /\ AssignAsked
  /\ last.entry = "api"
  /\ last.actor = "tech2"
  /\ last.arg = "tech2"
  /\ last.pre.assigned_to = NoUser
  /\ last.resp = "NotFound"

\* C6: an administrator's assign is rejected as InvalidTarget unless the
\* target is a technician, so that after a successful assign by an
\* administrator, on either entry point, the assignee is a technician.
AdminAssignsTechnicians ==
  (AssignAsked /\ is_admin(last.actor)) =>
    /\ (AssignTarget \notin Users \/ ~is_tech(AssignTarget))
         => last.resp = "InvalidTarget"
    /\ last.resp = "ok" => is_tech(tickets[last.tid].assigned_to)

\* The request that departs from it: the administrator asks the API to assign
\* a ticket to a requester, and the requester becomes the assignee.
AdminAssignedRequester ==
  /\ AssignAsked
  /\ last.entry = "api"
  /\ last.actor = "admin"
  /\ last.arg = "req1"
  /\ last.resp = "ok"
  /\ tickets[last.tid].assigned_to = "req1"

\* C7: a transition or assign request that is rejected leaves the ticket row
\* and the Comment, Assignment, AuditLog, activity-feed and Notification
\* records exactly as they were.
RejectedChangesNothing ==
  [][(last'.op \in {"transition", "assign"} /\ last'.resp # "ok")
       => UNCHANGED store]_vars

\* Requests of each kind have been rejected: here an illegal transition the
\* administrator asked for through the UI on a ticket that has history.
RejectedWithHistory ==
  /\ TransitionAsked
  /\ last.entry = "ui"
  /\ last.resp = "IllegalTransition"
  /\ Len(audit) > 0
  /\ Len(notifications) > 0

\* The request r gave a ticket an assignee by hand: an accepted assign, or a
\* creation whose form carried an assignee.
ByHand(r) ==
  /\ r.resp = "ok"
  /\ r.op = "assign" \/ (r.op = "create" /\ r.arg # NoUser)

IsAssign(e) == e.action = "ASSIGN"

\* C9: an operation that gives a ticket an assignee by hand (assign through
\* API or UI, creation with an assignee) sets the assignee to the target and
\* appends exactly one Assignment with to_user the target and exactly one
\* ASSIGN entry whose actor is the acting user, whose `from` is the previous
\* assignee (null if there was none) and whose `to` is the target; at creation
\* the Assignment's from_user is the creator and `from` is null.
ManualAssignRecorded ==
  [][ByHand(last') =>
       LET r == last'
           target == HandTarget(r)
           n == Len(assignments)
           old == SelectSeq(audit, IsAssign)
           new == SelectSeq(audit', IsAssign)
       IN /\ tickets'[r.tid].assigned_to = target
          /\ Len(assignments') = n + 1
          /\ SubSeq(assignments', 1, n) = assignments
          /\ assignments'[n + 1].ticket = r.tid
          /\ assignments'[n + 1].to_user = target
          /\ Len(new) = Len(old) + 1
          /\ SubSeq(new, 1, Len(old)) = old
          /\ new[Len(new)].ticket = r.tid
          /\ new[Len(new)].actor = r.actor
          /\ new[Len(new)].meta.from = r.pre.assigned_to
          /\ new[Len(new)].meta.to = target
          /\ r.op = "create"
               => (/\ assignments'[n + 1].from_user = r.actor
                   /\ new[Len(new)].meta.from = NoUser)]_vars

\* A ticket the administrator opened for tech1 and then gave to tech2.
Reassigned ==
  /\ AssignAsked
  /\ last.resp = "ok"
  /\ last.actor = "admin"
  /\ last.pre.assigned_to = "tech1"
  /\ tickets[last.tid].assigned_to = "tech2"
  /\ Len(assignments) = 2
  /\ assignments[1].from_user = "admin"
  /\ audit[Len(audit)].meta.from = "tech1"

(***************************************************************************)
(* Atomicity of a transition, checked under SpecCrash.                     *)
(***************************************************************************)
IsStatus(e) == e.action = "STATUS"

\* The status the STATUS entries of ticket tid account for
audited_status(log, tid) ==
  LET IsMine(e) == IsStatus(e) /\ e.ticket = tid
      mine == SelectSeq(log, IsMine)
  IN IF mine = <<>> THEN OPEN ELSE mine[Len(mine)].meta.to

\* C8: a transition is all or nothing: one that fails or is interrupted after
\* it started writing persists none of the status change, the comment and the
\* STATUS entry, and no state shows a ticket whose status changed without the
\* matching STATUS entry.
TransitionAllOrNothing ==
  [][/\ (last'.op = "transition" /\ last'.resp # "ok")
          => UNCHANGED <<tickets, comments, audit>>
     /\ \A tid \in DOMAIN tickets' :
          tickets'[tid].status = audited_status(audit', tid)]_vars

\* The run that departs from it: the administrator's transition is
\* interrupted after ticket.save(); the ticket is IN_PROGRESS and the log has
\* no STATUS entry.
StatusWithoutAudit ==
  /\ TransitionAsked
  /\ last.resp = "Interrupted"
  /\ last.actor = "admin"
  /\ last.pre.status = OPEN
  /\ tickets[last.tid].status = IN_PROGRESS
  /\ SelectSeq(audit, IsStatus) = <<>>

(***************************************************************************)
(* Auto-assignment, checked under SpecAuto.                                *)
(***************************************************************************)
\* The precedence level at which a rule matches ticket t: 1 for category and
\* area, 2 for category with no area, 3 for area with no category; 0 when the
\* rule is inactive or does not match.
MatchLevel(rule, t) ==
  IF ~rule.is_active THEN 0
  ELSE IF rule.category = t.category /\ rule.area = t.area THEN 1
  ELSE IF rule.category = t.category /\ rule.area = NoArea THEN 2
  ELSE IF rule.category = NoCategory /\ rule.area = t.area THEN 3
  ELSE 0

\* The last request opened a ticket with no assignee chosen by hand, so that
\* apply_auto_assign ran on it.
AutoTried ==
  /\ last.op = "create"
  /\ last.resp = "ok"
  /\ last.entry = "api" \/ last.arg = NoUser

\* C10: apply_auto_assign takes, among the active rules, the first match in
\* the order (category, area), (category, no area), (no category, area): a
\* rule of an earlier level wins over any rule of a later one.  With no match
\* it returns False and changes nothing.
AutoAssignPrecedence ==
  AutoTried =>
    LET t == tickets[last.tid]
        OfTicket(e) == e.ticket = last.tid
        AssignOfTicket(e) == IsAssign(e) /\ e.ticket = last.tid
        assigned == SelectSeq(assignments, OfTicket)
        matching == {i \in DOMAIN rules : MatchLevel(rules[i], t) # 0}
    IN IF matching = {}
         THEN /\ ~last.auto
              /\ t.assigned_to = NoUser
              /\ assigned = <<>>
              /\ SelectSeq(audit, AssignOfTicket) = <<>>
         ELSE \E i \in matching :
                /\ \A j \in matching :
                     \/ MatchLevel(rules[i], t) < MatchLevel(rules[j], t)
                     \/ (MatchLevel(rules[i], t) = MatchLevel(rules[j], t) /\ i <= j)
                /\ last.auto
                /\ t.assigned_to = rules[i].tech
                /\ Len(assigned) = 1
                /\ assigned[1].to_user = rules[i].tech

\* A Hardware ticket of Floor3 opened when the first rule sends Floor3 to
\* tech2 and the second sends Hardware to tech1: the category rule wins.
CategoryBeatsArea ==
  /\ AutoTried
  /\ rules = <<[category |-> NoCategory, area |-> "Floor3", tech |-> "tech2",
                is_active |-> TRUE],
               [category |-> "Hardware", area |-> NoArea, tech |-> "tech1",
                is_active |-> TRUE]>>
  /\ tickets[last.tid].category = "Hardware"
  /\ tickets[last.tid].area = "Floor3"
  /\ tickets[last.tid].assigned_to = "tech1"

\* C11: apply_auto_assign is idempotent: called on a ticket whose assignee is
\* already the technician of the matched rule (as on a second call right after
\* one that applied) it returns False, appends no Assignment and no AuditLog
\* entry and leaves the ticket row as it was.
AutoAssignIdempotent ==
  [][(/\ last'.op = "auto"
      /\ auto_assign_rule(last'.pre) # 0
      /\ rules[auto_assign_rule(last'.pre)].tech = last'.pre.assigned_to)
       => (~last'.auto /\ UNCHANGED store)]_vars

\* apply_auto_assign called again on a ticket that it assigned when the
\* ticket was opened.
AutoAssignedTwice ==
  /\ last.op = "auto"
  /\ ~last.auto
  /\ last.pre.assigned_to # NoUser
  /\ \E i \in DOMAIN assignments :
       /\ assignments[i].ticket = last.tid
       /\ assignments[i].reason = "auto-assign"
       /\ assignments[i].to_user = last.pre.assigned_to

(***************************************************************************)
(* Properties of the SLA sweep, checked under SpecSla.                     *)
(***************************************************************************)
\* The AuditLog entries of ticket tid with the given action
sla_logs(log, tid, action) ==
  {i \in DOMAIN log : log[i].ticket = tid /\ log[i].action = action}

\* The last request was a sweep that ran (dry or not).
Swept == last.op = "sweep" /\ last.resp = "ok"

\* C12: whatever sweeps (of any ratio, dry or not), creations, transitions,
\* assignments and waits came before, a ticket has at most one SLA_WARN and at
\* most one SLA_BREACH entry in the AuditLog.
AtMostOneSlaLog ==
  \A tid \in DOMAIN tickets :
    /\ Cardinality(sla_logs(audit, tid, "SLA_WARN")) <= 1
    /\ Cardinality(sla_logs(audit, tid, "SLA_BREACH")) <= 1

\* A sweep that wrote nothing ran over a ticket that is still open, past its
\* SLA, and already has both entries.
SweptAfterBothLogs ==
  /\ Swept /\ ~last.dry_run
  /\ last.warnings = 0 /\ last.breaches = 0
  /\ \E tid \in DOMAIN tickets :
       /\ tickets[tid].status \in {OPEN, IN_PROGRESS}
       /\ now - tickets[tid].created_at >= sla_hours_value(tickets[tid])
       /\ sla_logs(audit, tid, "SLA_WARN") # {}
       /\ sla_logs(audit, tid, "SLA_BREACH") # {}

\* C13: a sweep that is not dry and runs right after another sweep that was
\* not dry (same ratio, no request and no wait between them) returns
\* warnings = 0 and breaches = 0 and creates no AuditLog entry and no
\* Notification.
SecondSweepIsEmpty ==
  [][(/\ Swept /\ ~last.dry_run
      /\ last'.op = "sweep" /\ last'.resp = "ok" /\ ~last'.dry_run
      /\ last'.warn_pct = last.warn_pct)
       => (/\ last'.warnings = 0 /\ last'.breaches = 0
           /\ audit' = audit
           /\ notifications' = notifications)]_vars

\* A sweep returned one warning for a ticket that is past its SLA, never
\* resolved, and whose SLA_BREACH entry is the entry just before the
\* SLA_WARN entry the sweep wrote.
WarnedAfterBreach ==
  /\ Swept /\ ~last.dry_run /\ last.warnings = 1 /\ last.breaches = 0
  /\ Len(audit) >= 2
  /\ audit[Len(audit)].action = "SLA_WARN"
  /\ audit[Len(audit) - 1].action = "SLA_BREACH"
  /\ audit[Len(audit)].ticket = audit[Len(audit) - 1].ticket
  /\ LET t == tickets[audit[Len(audit)].ticket]
     IN /\ t.resolved_at = NoTime
        /\ now - t.created_at >= sla_hours_value(t)
        /\ \E i \in DOMAIN notifications :
             notifications[i].message = "por vencer su SLA"

\* C14: a dry sweep leaves the AuditLog, the activity feed, the notifications
\* and the mails sent (and every other table) as they were, and returns the
\* counts a sweep that is not dry would return from the same state.
DrySweepWritesNothing ==
  [][(last'.op = "sweep" /\ last'.resp = "ok" /\ last'.dry_run)
       => (/\ UNCHANGED store
           /\ last'.warnings = run_sla_check(DB, last'.warn_pct, FALSE).warnings
           /\ last'.breaches = run_sla_check(DB, last'.warn_pct, FALSE).breaches)]_vars

\* A dry sweep counted a warning or a breach for a ticket that has no SLA
\* entry, and no notification exists.
DrySweepCounted ==
  /\ Swept /\ last.dry_run
  /\ last.warnings + last.breaches >= 1
  /\ notifications = <<>>
  /\ \A i \in DOMAIN audit : audit[i].action \notin {"SLA_WARN", "SLA_BREACH"}

\* The last request, in the next state, is a sweep that ran and was not dry.
SweptForReal == last'.op = "sweep" /\ last'.resp = "ok" /\ ~last'.dry_run

\* C15: for an OPEN or IN_PROGRESS ticket that was never resolved, with an SLA
\* of S hours, a sweep of ratio r that is not dry and runs when
\* r*S <= elapsed < S while the ticket has no SLA_WARN entry writes exactly one
\* SLA_WARN entry and no SLA_BREACH entry for it; a sweep that runs when
\* elapsed >= S while the ticket has no SLA_BREACH entry writes exactly one
\* SLA_BREACH entry and no SLA_WARN entry for it.
WarnThenBreach ==
  [][SweptForReal =>
       \A tid \in DOMAIN tickets :
         LET t == tickets[tid]
             S == sla_hours[t.priority]
             elapsed == now - t.created_at
             warns == Cardinality(sla_logs(audit, tid, "SLA_WARN"))
             breaches == Cardinality(sla_logs(audit, tid, "SLA_BREACH"))
             warns_after == Cardinality(sla_logs(audit', tid, "SLA_WARN"))
             breaches_after == Cardinality(sla_logs(audit', tid, "SLA_BREACH"))
         IN (t.status \in {OPEN, IN_PROGRESS} /\ t.resolved_at = NoTime)
              => /\ (/\ last'.warn_pct * S <= elapsed * 100
                     /\ elapsed < S
                     /\ warns = 0)
                      => (warns_after = 1 /\ breaches_after = breaches)
                 /\ (elapsed >= S /\ breaches = 0)
                      => (breaches_after = 1 /\ warns_after = warns)]_vars

\* The case of S = 24 and r = 0.8: the ticket was warned about at 20 hours
\* and the sweep at 25 hours has just written its SLA_BREACH entry.
WarnedAt20BreachedAt25 ==
  /\ Swept /\ ~last.dry_run /\ last.warn_pct = 80
  /\ last.warnings = 0 /\ last.breaches = 1
  /\ \E tid \in DOMAIN tickets :
       /\ sla_hours[tickets[tid].priority] = 24
       /\ now - tickets[tid].created_at = 25
       /\ \E i \in sla_logs(audit, tid, "SLA_WARN") :
            sla_logs(audit, tid, "SLA_BREACH") = {i + 1} /\ i + 1 = Len(audit)

audit_of(log, tid) ==
  LET OfTicket(e) == e.ticket = tid IN SelectSeq(log, OfTicket)

\* Sequence p is the beginning of sequence q.
IsPrefix(p, q) == Len(p) <= Len(q) /\ SubSeq(q, 1, Len(p)) = p

\* C17: no creation, transition, assignment, auto-assignment, comment,
\* attachment or sweep changes or removes an AuditLog entry: after every step
\* the log begins with the log as it was, and so does the log of each ticket.
AuditLogAppendOnly ==
  [][/\ IsPrefix(audit, audit')
     /\ \A tid \in DOMAIN tickets :
          IsPrefix(audit_of(audit, tid), audit_of(audit', tid))]_vars

\* A comment was recorded on a ticket whose trail already held its CREATE
\* entry and an earlier COMMENT entry.
CommentedTwice ==
  /\ last.op = "comment" /\ last.resp = "ok"
  /\ Len(audit_of(audit, last.tid)) >= 3
  /\ audit_of(audit, last.tid)[1].action = "CREATE"
  /\ \E i, j \in DOMAIN audit :
       /\ i < j /\ j = Len(audit)
       /\ audit[i].action = "COMMENT" /\ audit[j].action = "COMMENT"
       /\ audit[i].ticket = last.tid /\ audit[j].ticket = last.tid

StampedOnFirstEntryOnly ==
  [][\A tid \in DOMAIN tickets :
       /\ tickets[tid].resolved_at # NoTime
            => tickets'[tid].resolved_at = tickets[tid].resolved_at
       /\ tickets[tid].closed_at # NoTime
            => tickets'[tid].closed_at = tickets[tid].closed_at
       /\ (tickets[tid].resolved_at = NoTime /\ tickets'[tid].resolved_at # NoTime)
            => (tickets[tid].status # RESOLVED /\ tickets'[tid].status = RESOLVED)
       /\ (tickets[tid].closed_at = NoTime /\ tickets'[tid].closed_at # NoTime)
            => (tickets[tid].status # CLOSED /\ tickets'[tid].status = CLOSED)]_vars

\* The run that departs from it: a ticket resolved at one hour, reopened, and
\* resolved at a later hour carries the later hour in resolved_at.
FirstResolutionLost ==
  /\ last.op = "transition" /\ last.resp = "ok"
  /\ last.pre.status = IN_PROGRESS
  /\ last.pre.resolved_at \notin {NoTime, now}
  /\ tickets[last.tid].status = RESOLVED
  /\ tickets[last.tid].resolved_at = now

\* The STATUS entries of ticket tid, in creation order
status_logs(log, tid) ==
  LET IsMine(e) == IsStatus(e) /\ e.ticket = tid IN SelectSeq(log, IsMine)

\* C20: a transition that succeeds, on the API or on the UI, appends exactly
\* one AuditLog entry, a STATUS entry of its ticket whose `from` is the status
\* the ticket had and whose `to` is next_status; and in every step the status
\* of a ticket changes exactly when its STATUS entries grow, by one, so a
\* ticket has as many STATUS entries as its status changed.
OneStatusEntryPerTransition ==
  [][/\ (last'.op = "transition" /\ last'.resp = "ok")
          => /\ Len(audit') = Len(audit) + 1
             /\ audit'[Len(audit')].action = "STATUS"
             /\ audit'[Len(audit')].ticket = last'.tid
             /\ audit'[Len(audit')].actor = last'.actor
             /\ audit'[Len(audit')].meta.from = tickets[last'.tid].status
             /\ audit'[Len(audit')].meta.to = last'.arg
             /\ tickets'[last'.tid].status = last'.arg
     /\ \A tid \in DOMAIN tickets :
          IF tickets'[tid].status # tickets[tid].status
            THEN Len(status_logs(audit', tid)) = Len(status_logs(audit, tid)) + 1
            ELSE status_logs(audit', tid) = status_logs(audit, tid)
     /\ \A tid \in DOMAIN tickets' \ DOMAIN tickets :
          status_logs(audit', tid) = <<>>]_vars

\* A ticket moved four times, through both entry points, and its trail holds
\* four STATUS entries, each starting where the one before ended.
FourStatusEntries ==
  /\ last.op = "transition" /\ last.resp = "ok"
  /\ LET mine == status_logs(audit, last.tid)
     IN /\ Len(mine) = 4
        /\ mine[1].meta.from = OPEN
        /\ \A i \in 1..3 : mine[i].meta.to = mine[i + 1].meta.from
        /\ mine[4].meta.to = tickets[last.tid].status
        /\ \E i, j \in 1..4 : mine[i].actor # mine[j].actor

(***************************************************************************)
(* More properties of the SLA sweep, checked under SpecSla.                *)
(***************************************************************************)
\* The tickets that got an SLA_BREACH entry in the step
newly_breached ==
  {tid \in DOMAIN tickets :
     sla_logs(audit', tid, "SLA_BREACH") # sla_logs(audit, tid, "SLA_BREACH")}

\* C25: a sweep that is not dry gives every ticket that was resolved after
\* its due date and has no SLA_BREACH entry exactly one such entry, with no
\* actor, counts it as a breach and gives it no SLA_WARN entry, whether the
\* ticket is still RESOLVED, is CLOSED or was reopened.
LateResolutionFlagged ==
  [][SweptForReal =>
       /\ \A tid \in DOMAIN tickets :
            (/\ tickets[tid].resolved_at # NoTime
             /\ tickets[tid].resolved_at > due_at(tickets[tid])
             /\ sla_logs(audit, tid, "SLA_BREACH") = {})
              => /\ Cardinality(sla_logs(audit', tid, "SLA_BREACH")) = 1
                 /\ \A i \in sla_logs(audit', tid, "SLA_BREACH") :
                      audit'[i].actor = NoUser
                 /\ sla_logs(audit', tid, "SLA_WARN")
                      = sla_logs(audit, tid, "SLA_WARN")
       /\ last'.breaches = Cardinality(newly_breached)]_vars

\* The run that departs from it: a sweep that was not dry has run over a
\* ticket that is RESOLVED, was resolved after its due date, and still has no
\* SLA_BREACH entry.
LateResolutionUnflagged ==
  /\ Swept /\ ~last.dry_run
  /\ last.breaches = 0
  /\ \E tid \in DOMAIN tickets :
       /\ tickets[tid].status = RESOLVED
       /\ tickets[tid].resolved_at > due_at(tickets[tid])
       /\ sla_logs(audit, tid, "SLA_BREACH") = {}

\* C27: the SLA entries of a ticket are ordered: an SLA_WARN entry is never
\* written for a ticket that has an SLA_BREACH entry, so a ticket's SLA_WARN
\* entry, when there is one, is older than its SLA_BREACH entry.
WarnOlderThanBreach ==
  \A tid \in DOMAIN tickets :
    \A i \in sla_logs(audit, tid, "SLA_WARN") :
      \A j \in sla_logs(audit, tid, "SLA_BREACH") : i < j

\* The run that departs from it: a ticket whose SLA_BREACH entry is older than
\* its SLA_WARN entry, both written by sweeps at the same hour.
BreachOlderThanWarn ==
  /\ Swept
  /\ \E tid \in DOMAIN tickets :
       \E i \in sla_logs(audit, tid, "SLA_BREACH") :
         \E j \in sla_logs(audit, tid, "SLA_WARN") :
           /\ i < j
           /\ audit[i].meta.overdue_h = <<now - due_at(tickets[tid])>>
           /\ audit[j].meta.remaining_h = <<due_at(tickets[tid]) - now>>

\* Ticket.is_overdue, with the sweep's test of the elapsed time
is_overdue(t) ==
  t.status \in {OPEN, IN_PROGRESS} /\ now - t.created_at >= sla_hours_value(t)

\* C28: when a sweep that is not dry has completed, every ticket that is OPEN
\* or IN_PROGRESS and whose elapsed time is at least its SLA has an SLA_BREACH
\* entry, also a ticket that was resolved before its due date and reopened.
OverdueFlaggedAfterSweep ==
  (Swept /\ ~last.dry_run)
    => \A tid \in DOMAIN tickets :
         is_overdue(tickets[tid]) => sla_logs(audit, tid, "SLA_BREACH") # {}

\* The run that departs from it: a sweep that was not dry has run over a
\* ticket resolved in time, reopened and now past its SLA, and the ticket has
\* no SLA_BREACH entry.
ReopenedOverdueUnflagged ==
  /\ Swept /\ ~last.dry_run
  /\ \E tid \in DOMAIN tickets :
       /\ is_overdue(tickets[tid])
       /\ tickets[tid].resolved_at # NoTime
       /\ tickets[tid].resolved_at <= due_at(tickets[tid])
       /\ sla_logs(audit, tid, "SLA_BREACH") = {}

(***************************************************************************)
(* The CREATE entry, checked under Spec.                                   *)
(***************************************************************************)
\* C29: every ticket, created through the API or through the UI, has exactly
\* one CREATE entry, and that entry is the oldest entry of the ticket's
\* trail, older than the ASSIGN entry of an assignment made at creation.
OneCreateEntryFirst ==
  \A tid \in DOMAIN tickets :
    /\ Cardinality(sla_logs(audit, tid, "CREATE")) = 1
    /\ audit_of(audit, tid)[1].action = "CREATE"

\* The run that departs from it: a ticket opened through the UI by the
\* administrator with an assignee; its trail holds the ASSIGN entry and no
\* CREATE entry.
UiTicketWithoutCreateEntry ==
  /\ last.op = "create" /\ last.entry = "ui" /\ last.resp = "ok"
  /\ sla_logs(audit, last.tid, "CREATE") = {}
  /\ sla_logs(audit, last.tid, "ASSIGN") # {}

(***************************************************************************)
(* Errors during a sweep, checked under SpecFault.                         *)
(***************************************************************************)
\* C26: an error raised while a sweep evaluates a ticket or emits for it is
\* contained to that ticket: the sweep still returns its counts, every other
\* ticket gets the entries a sweep without the error gives it, and the entries
\* written before the error stay.
SweepErrorContained ==
  [][(last'.op = "sweep" /\ last'.arg # "")
       => /\ last'.resp = "ok"
          /\ IsPrefix(audit, audit')
          /\ \A tid \in DOMAIN tickets \ {last'.tid} :
               audit_of(audit', tid)
                 = audit_of(run_sla_check(DB, last'.warn_pct, FALSE).db.audit, tid)]_vars

\* The run that departs from it: the insert of the first ticket's SLA entry
\* raised; the sweep ended with the error, and the second ticket, past its
\* SLA too, has no SLA entry.
SweepAbortedBeforeSecond ==
  /\ last.op = "sweep" /\ last.resp = "Error" /\ last.tid = 1
  /\ Len(tickets) = 2
  /\ is_overdue(tickets[2])
  /\ tickets[2].resolved_at = NoTime
  /\ sla_logs(audit, 2, "SLA_BREACH") = {}

(***************************************************************************)
(* Requests on one ticket at the same time, checked under SpecRace.        *)
(***************************************************************************)
\* The TicketAssignment rows of a ticket, oldest first
assignments_of(rows, tid) == SelectSeq(rows, LAMBDA a : a.ticket = tid)

\* Two requests on the same ticket overlapped and both have answered.
PairDone(v, w) ==
  /\ v # w
  /\ inflight[v].pc = "done" /\ inflight[w].pc = "done"
  /\ inflight[v].overlapped /\ inflight[w].overlapped
  /\ inflight[v].tid = inflight[w].tid

\* The tables a request leaves when it is served from start to end with
\* nothing else running
Serve(db, call) ==
  IF call.op = "transition"
    THEN IF call.entry = "api"
           THEN transition(db, call.actor, call.tid, call.arg, "", FALSE).db
           ELSE ticket_transition(db, call.actor, call.tid, call.arg, "", FALSE).db
    ELSE IF call.entry = "api"
           THEN assign(db, call.actor, call.tid, call.arg, "").db
           ELSE ticket_assign(db, call.actor, call.tid, call.arg, "", "").db

\* The ticket rows and the records appended to them
Written(db) == <<db.tickets, db.assignments, db.comments, db.audit>>

\* C21: whenever no request is in the middle of its writes, after creations,
\* assigns, auto-assigns and transitions, two assigns of the same ticket at
\* the same time included, a ticket with a TicketAssignment is assigned to
\* the to_user of its newest TicketAssignment, and an assigned ticket has a
\* TicketAssignment.
AssigneeIsNewestAssignment ==
  Quiescent
    => \A tid \in DOMAIN tickets :
         LET rows == assignments_of(assignments, tid) IN
         /\ rows # <<>> => tickets[tid].assigned_to = rows[Len(rows)].to_user
         /\ tickets[tid].assigned_to # NoUser => rows # <<>>

\* The run that departs from it: two assigns of one ticket overlapped, both
\* answered, and the ticket is assigned to the to_user of the older of their
\* two TicketAssignment rows.
AssignsCrossed ==
  \E v, w \in Workers :
    /\ PairDone(v, w)
    /\ inflight[v].op = "assign" /\ inflight[w].op = "assign"
    /\ LET rows == assignments_of(assignments, inflight[v].tid) IN
       /\ Len(rows) >= 2
       /\ tickets[inflight[v].tid].assigned_to = rows[Len(rows) - 1].to_user
       /\ tickets[inflight[v].tid].assigned_to # rows[Len(rows)].to_user

\* C22: the writes of a transition and of an assign are atomic towards other
\* writers of the ticket: when two requests on one ticket overlapped and
\* both answered, the ticket rows and the appended records are those of
\* serving the two one after the other, in one of the two orders.
OverlapIsSerial ==
  \A v, w \in Workers :
    (PairDone(v, w) /\ last.op \in {"transition", "assign"} /\ last.pc = "done")
      => \/ Written(DB) = Written(Serve(Serve(inflight[v].base, inflight[v]),
                                        inflight[w]))
         \/ Written(DB) = Written(Serve(Serve(inflight[v].base, inflight[w]),
                                        inflight[v]))

\* The run that departs from it: two transitions of one ticket overlapped
\* and both answered with success, where served one after the other the
\* second is refused; the trail holds the STATUS entries of both.
BothTransitionsAnswered ==
  \E v, w \in Workers :
    /\ PairDone(v, w) /\ last.op = "transition" /\ last.pc = "done"
    /\ inflight[v].op = "transition" /\ inflight[w].op = "transition"
    /\ Len(audit) = Len(inflight[v].base.audit) + 2
    /\ Len(Serve(Serve(inflight[v].base, inflight[v]), inflight[w]).audit)
         = Len(inflight[v].base.audit) + 1
    /\ Len(Serve(Serve(inflight[v].base, inflight[w]), inflight[v]).audit)
         = Len(inflight[v].base.audit) + 1

\* C23: the from-status of a STATUS entry is the status its transition read
\* and checked the edge against, so every STATUS entry holds one of the five
\* edges of the matrix, also after two transitions interleaved, on either
\* entry point.
StatusEntriesAreEdges ==
  /\ \A i \in 1..Len(audit) :
       audit[i].action = "STATUS"
         => <<audit[i].meta.from, audit[i].meta.to>> \in LegalEdges
  /\ \A w \in Workers :
       (inflight[w].op = "transition" /\ inflight[w].pc = "done"
          /\ last.op = "transition" /\ last.pc = "done" /\ last.worker = w)
         => audit[Len(audit)].meta.from = inflight[w].inst.status

\* The run that departs from it: a UI transition loaded the ticket, another
\* transition moved it, and the UI transition saved and wrote a STATUS entry
\* whose from-status is not the status it read and whose edge is not in the
\* matrix.
UiEntryOffTheMatrix ==
  \E v, w \in Workers :
    /\ PairDone(v, w) /\ last.op = "transition" /\ last.pc = "done"
    /\ last.worker = w /\ inflight[w].entry = "ui"
    /\ inflight[v].op = "transition" /\ inflight[w].op = "transition"
    /\ audit[Len(audit)].action = "STATUS"
    /\ audit[Len(audit)].meta.from # inflight[w].inst.status
    /\ <<audit[Len(audit)].meta.from, audit[Len(audit)].meta.to>> \notin LegalEdges

\* C30: the save of a successful transition changes status, resolved_at,
\* closed_at and updated_at only: assignee, title and requester stay as last
\* committed, an assignee committed by an assign between the transition's
\* read and its write included; the writes of an assign leave status,
\* resolved_at and closed_at as they are.
TransitionWritesItsColumns ==
  [][/\ (last'.op = "transition" /\ last'.pc = "saved")
          => /\ tickets'[last'.tid].assigned_to = tickets[last'.tid].assigned_to
             /\ tickets'[last'.tid].title = tickets[last'.tid].title
             /\ tickets'[last'.tid].requester = tickets[last'.tid].requester
     /\ (last'.op = "assign" /\ last'.pc \in {"saved", "done"})
          => /\ tickets'[last'.tid].status = tickets[last'.tid].status
             /\ tickets'[last'.tid].resolved_at = tickets[last'.tid].resolved_at
             /\ tickets'[last'.tid].closed_at = tickets[last'.tid].closed_at]_vars

\* The run that departs from it: an assign ran from start to end between a
\* transition's read and its save; after the save the ticket has the
\* assignee the transition had loaded, not the to_user of the assign.
AssigneeLostByTransition ==
  \E v, w \in Workers :
    /\ v # w
    /\ last.op = "transition" /\ last.pc = "saved" /\ last.worker = w
    /\ inflight[v].op = "assign" /\ inflight[v].pc = "done"
    /\ inflight[v].tid = inflight[w].tid /\ inflight[v].overlapped
    /\ inflight[v].inst.assigned_to = inflight[w].inst.assigned_to
    /\ tickets[last.tid].assigned_to = inflight[w].inst.assigned_to
    /\ tickets[last.tid].assigned_to # inflight[v].arg

(***************************************************************************)
(* Two sweeps at the same time, checked under SpecSweeps.                  *)
(***************************************************************************)
\* The SLA mails sent about a ticket under one subject
sla_mails(tid, subject) ==
  {i \in DOMAIN emails : emails[i].ticket = tid /\ emails[i].subject = subject}

\* C24: of two sweeps running at the same time, the test-then-write for one
\* ticket and one kind passes in one only: whatever the interleaving, a
\* ticket has at most one SLA_WARN and at most one SLA_BREACH entry, and the
\* recipients get one mail for each.
SweepsEmitOnce ==
  \A tid \in DOMAIN tickets :
    /\ Cardinality(sla_logs(audit, tid, "SLA_WARN")) <= 1
    /\ Cardinality(sla_logs(audit, tid, "SLA_BREACH")) <= 1
    /\ Cardinality(sla_mails(tid, "SLA por vencer")) <= 1
    /\ Cardinality(sla_mails(tid, "SLA VENCIDO")) <= 1

\* The run that departs from it: two sweeps overlapped, both passed the test
\* for SLA_BREACH before either wrote, and the ticket has two SLA_BREACH
\* entries and two mails.
BothSweepsEmitted ==
  /\ \A w \in Workers :
       inflight[w].op = "sweep" /\ inflight[w].pc = "done" /\ inflight[w].overlapped
  /\ \E tid \in DOMAIN tickets :
       /\ Cardinality(sla_logs(audit, tid, "SLA_BREACH")) = 2
       /\ Cardinality(sla_mails(tid, "SLA VENCIDO")) = 2

====
